---- MODULE Spec2Model ----
(***************************************************************************)
(* Verification model of the cur-quicksight synthesis helpers:             *)
(*   - json-template: visitJson / assertNoHardCodedValues                  *)
(*   - cur-parameters: lookupFromConfig / createStringParameter            *)
(*   - quicksight-stack: convertLocalTimeToUtc / getTimeZoneOffset,        *)
(*     normalizeDefinitionKeys / replaceStringRecursively /                *)
(*     applyDatasetReference, resolveRefreshScheduleTiming                 *)
(*   - the definition builders of the stacks and app-main                  *)
(* Strings are sequences of one-character strings, so that regular         *)
(* expressions, includes(), split(), parseInt() and padStart() are         *)
(* computed character by character as the code computes them.              *)
(***************************************************************************)
EXTENDS Integers, Sequences, FiniteSets, TLC

VARIABLES
    sanValue,       \* assertNoHardCodedValues: the `value` argument
    sanContext,     \* assertNoHardCodedValues: the `messageContext` argument
    sanOutcome,     \* result of the call: visitor log and thrown error
    prmInput,       \* createStringParameter: context, sources and props
    prmOutcome,     \* result of the call: ParameterDefinition or thrown error
    utcInput,       \* convertLocalTimeToUtc: localTime, timezone, ICU hour style
    utcOutcome,     \* result of the call: returned string or thrown error
    defInput,       \* definition helpers: the tree and the string arguments
    defOutcome,     \* the calls made so far and the tree they left
    schInput,       \* resolveRefreshScheduleTiming: this.parameters, ICU hour style
    schOutcome,     \* result of the call: schedule timing or thrown error
    synInput,       \* app-main: the error each constructor throws, if any
    synState,       \* app-main: position, constructed stacks, log, exit
    bldInput,       \* definition builder: the builder and its template
    bldState,       \* definition builder: position, tree, events so far
    visInput,       \* visitJson: the `value` argument, as parsed
    visOutcome,     \* result of the call: the visitor's calls
    hdlInput,       \* Lambda handler: process.env of the execution environment
    hdlState        \* Lambda handler: module state, position, calls sent

sanVars == <<sanValue, sanContext, sanOutcome>>
prmVars == <<prmInput, prmOutcome>>
utcVars == <<utcInput, utcOutcome>>
defVars == <<defInput, defOutcome>>
schVars == <<schInput, schOutcome>>
synVars == <<synInput, synState>>
bldVars == <<bldInput, bldState>>
visVars == <<visInput, visOutcome>>
hdlVars == <<hdlInput, hdlState>>

vars == <<sanVars, prmVars, utcVars, defVars, schVars, synVars, bldVars, visVars, hdlVars>>

\* each specification runs one component; the variables of the others stay 0
OthersUnused(component) ==
    /\ IF component = "san" THEN TRUE ELSE sanValue = 0 /\ sanContext = 0 /\ sanOutcome = 0
    /\ IF component = "prm" THEN TRUE ELSE prmInput = 0 /\ prmOutcome = 0
    /\ IF component = "utc" THEN TRUE ELSE utcInput = 0 /\ utcOutcome = 0
    /\ IF component = "def" THEN TRUE ELSE defInput = 0 /\ defOutcome = 0
    /\ IF component = "sch" THEN TRUE ELSE schInput = 0 /\ schOutcome = 0
    /\ IF component = "syn" THEN TRUE ELSE synInput = 0 /\ synState = 0
    /\ IF component = "bld" THEN TRUE ELSE bldInput = 0 /\ bldState = 0
    /\ IF component = "vis" THEN TRUE ELSE visInput = 0 /\ visOutcome = 0
    /\ IF component = "hdl" THEN TRUE ELSE hdlInput = 0 /\ hdlState = 0

OthersUnchanged(component) ==
    /\ IF component = "san" THEN TRUE ELSE UNCHANGED sanVars
    /\ IF component = "prm" THEN TRUE ELSE UNCHANGED prmVars
    /\ IF component = "utc" THEN TRUE ELSE UNCHANGED utcVars
    /\ IF component = "def" THEN TRUE ELSE UNCHANGED defVars
    /\ IF component = "sch" THEN TRUE ELSE UNCHANGED schVars
    /\ IF component = "syn" THEN TRUE ELSE UNCHANGED synVars
    /\ IF component = "bld" THEN TRUE ELSE UNCHANGED bldVars
    /\ IF component = "vis" THEN TRUE ELSE UNCHANGED visVars
    /\ IF component = "hdl" THEN TRUE ELSE UNCHANGED hdlVars

----------------------------------------------------------------------------
(* Bounds *)

MaxNodes == 4        \* generated trees have at most this many nodes

----------------------------------------------------------------------------
(* Characters and strings *)

LowerAlpha ==
    <<"a", "b", "c", "d", "e", "f", "g", "h", "i", "j", "k", "l", "m", "n", "o", "p", "q", "r", "s", "t", "u", "v", "w", "x", "y", "z">>

UpperAlpha ==
    <<"A", "B", "C", "D", "E", "F", "G", "H", "I", "J", "K", "L", "M", "N", "O", "P", "Q", "R", "S", "T", "U", "V", "W", "X", "Y", "Z">>

Digits ==
    <<"0", "1", "2", "3", "4", "5", "6", "7", "8", "9">>

Range(f) == {f[i] : i \in DOMAIN f}

\* the element of a one-element set; {e(x) : x \in {v}} evaluates v once
\* and hands its value to e, as an assignment to a const does
Only(S) == CHOOSE r \in S : TRUE

IsDigit(c) == c \in Range(Digits)

\* String.prototype.toLowerCase on one ASCII character
toLowerCase(c) ==
    IF c \in Range(UpperAlpha)
    THEN LowerAlpha[CHOOSE i \in 1..26 : UpperAlpha[i] = c]
    ELSE c

\* String.prototype.includes
includes(s, sub) ==
    \E i \in 1..(Len(s) - Len(sub) + 1) : SubSeq(s, i, i + Len(sub) - 1) = sub

\* index of the first ':' at or after position from, 0 when there is none
NextColon(s, from) ==
    IF \E j \in from..Len(s) : s[j] = ":"
    THEN CHOOSE j \in from..Len(s) : s[j] = ":" /\ \A k \in from..(j - 1) : s[k] # ":"
    ELSE 0

ArnPrefix == <<"a", "r", "n", ":", "a", "w", "s", ":">>

\* the pattern without the i flag: /arn:aws:[^:]+:[^:]+:\d{12}:/
ArnRegexMatchesAt_CaseSensitive(s, i) ==
    /\ i + 7 <= Len(s)
    /\ \A k \in 1..8 : s[i + k - 1] = ArnPrefix[k]
    /\ LET c1 == NextColon(s, i + 8)
       IN /\ c1 > i + 8
          /\ LET c2 == NextColon(s, c1 + 1)
             IN /\ c2 > c1 + 1
                /\ c2 + 13 <= Len(s)
                /\ \A k \in 1..12 : IsDigit(s[c2 + k])
                /\ s[c2 + 13] = ":"

\* /arn:aws:[^:]+:[^:]+:\d{12}:/i anchored at position i
ArnRegexMatchesAt(s, i) ==
    /\ i + 7 <= Len(s)
    /\ \A k \in 1..8 : toLowerCase(s[i + k - 1]) = ArnPrefix[k]
    /\ LET c1 == NextColon(s, i + 8)
       IN /\ c1 > i + 8
          /\ LET c2 == NextColon(s, c1 + 1)
             IN /\ c2 > c1 + 1
                /\ c2 + 13 <= Len(s)
                /\ \A k \in 1..12 : IsDigit(s[c2 + k])
                /\ s[c2 + 13] = ":"

\* /arn:aws:[^:]+:[^:]+:\d{12}:/i.test(node)
ArnRegexTest(s) == \E i \in 1..Len(s) : ArnRegexMatchesAt(s, i)

S3Marker == <<"s", "3", ":", "/", "/">>

BEGIN_STRING_TOKEN_MARKER == <<"$", "{", "T", "o", "k", "e", "n", "[">>

END_TOKEN_MARKER == <<"]", "}">>

VALID_KEY_CHARS == Range(LowerAlpha) \cup Range(UpperAlpha) \cup Range(Digits) \cup {":", ".", "_", "-"}

\* cdk.Token.isUnresolved on a string: the string holds a complete token
\* marker, "${Token[" <key chars>+ "]}"
TokenStringTest(s) ==
    \E i \in 1..Len(s) : \E j \in (i + 9)..(Len(s) - 1) :
        /\ SubSeq(s, i, i + 7) = BEGIN_STRING_TOKEN_MARKER
        /\ \A k \in (i + 8)..(j - 1) : s[k] \in VALID_KEY_CHARS
        /\ SubSeq(s, j, j + 1) = END_TOKEN_MARKER

BEGIN_LIST_TOKEN_MARKER == <<"#", "{", "T", "o", "k", "e", "n", "[">>

\* cdk.Token.isUnresolved on the only element of an array: the string holds
\* a complete list token marker, "#{Token[" <key chars>+ "]}"
ListTokenStringTest(s) ==
    \E i \in 1..Len(s) : \E j \in (i + 9)..(Len(s) - 1) :
        /\ SubSeq(s, i, i + 7) = BEGIN_LIST_TOKEN_MARKER
        /\ \A k \in (i + 8)..(j - 1) : s[k] \in VALID_KEY_CHARS
        /\ SubSeq(s, j, j + 1) = END_TOKEN_MARKER

----------------------------------------------------------------------------
(* JSON values (JsonValue): a record with the kind first *)

Undefined == [kind |-> "undefined", val |-> 0]
Null == [kind |-> "null", val |-> 0]
Bool(b) == [kind |-> "boolean", val |-> b]
Num(n) == [kind |-> "number", val |-> n]
Str(s) == [kind |-> "string", val |-> s]
Arr(items) == [kind |-> "array", val |-> items]
\* entries: sequence of <<key, value>> in insertion order, keys distinct
Obj(entries) == [kind |-> "object", val |-> entries]
\* an object implementing cdk.IResolvable
Resolvable(id) == [kind |-> "resolvable", val |-> id]

\* the typeof operator
typeof(v) ==
    CASE v.kind \in {"null", "array", "object", "resolvable"} -> "object"
      [] OTHER -> v.kind

\* ToBoolean
Truthy(v) ==
    CASE v.kind \in {"undefined", "null"} -> FALSE
      [] v.kind = "boolean" -> v.val
      [] v.kind = "number" -> v.val # 0
      [] v.kind = "string" -> Len(v.val) > 0
      [] OTHER -> TRUE

\* cdk.Token.isUnresolved
isUnresolved(v) ==
    CASE v.kind = "string" -> TokenStringTest(v.val)
      [] v.kind = "array" -> /\ Len(v.val) = 1
                             /\ v.val[1].kind = "string"
                             /\ ListTokenStringTest(v.val[1].val)
      [] v.kind = "resolvable" -> TRUE
      [] OTHER -> FALSE

----------------------------------------------------------------------------
(* json-template: visitJson and assertNoHardCodedValues *)

RECURSIVE NumberToString(_)
\* Number.prototype.toString for a non-negative integer
NumberToString(n) ==
    IF n < 10 THEN <<Digits[n + 1]>>
    ELSE NumberToString(n \div 10) \o <<Digits[(n % 10) + 1]>>

\* a path segment is an object key (a string) or an array index (a number)
KeySegment(k) == [kind |-> "key", val |-> k]
IndexSegment(i) == [kind |-> "index", val |-> i]

SegmentToString(seg) ==
    IF seg.kind = "index" THEN NumberToString(seg.val) ELSE seg.val

RECURSIVE join_DefaultSeparator(_, _)
\* pathSegments.join() called without its separator: ',' is used
join_DefaultSeparator(segments, sep) ==
    IF Len(segments) = 0 THEN <<>>
    ELSE IF Len(segments) = 1 THEN SegmentToString(segments[1])
    ELSE SegmentToString(segments[1]) \o <<",">> \o join_DefaultSeparator(Tail(segments), sep)

RECURSIVE join(_, _)
\* Array.prototype.join
join(segments, sep) ==
    IF Len(segments) = 0 THEN <<>>
    ELSE IF Len(segments) = 1 THEN SegmentToString(segments[1])
    ELSE SegmentToString(segments[1]) \o sep \o join(Tail(segments), sep)

NoError == [name |-> "none", message |-> <<>>]
Error(msg) == [name |-> "Error", message |-> msg]

ArnMessage ==
    <<"H", "a", "r", "d", "c", "o", "d", "e", "d", " ", "A", "R", "N", " ", "d", "e", "t", "e", "c", "t", "e", "d", " ", "a", "t", " ">>

S3Message ==
    <<"H", "a", "r", "d", "c", "o", "d", "e", "d", " ", "S", "3", " ", "U", "R", "I", " ", "d", "e", "t", "e", "c", "t", "e", "d", " ", "a", "t", " ">>

InWord == <<" ", "i", "n", " ">>

\* the visitor with the S3 test made on the lower-cased string
SanitizerVisitor_S3AnyCase(node, pathSegments, messageContext) ==
    IF node.kind # "string" THEN NoError
    ELSE IF isUnresolved(node) THEN NoError
    ELSE IF ArnRegexTest(node.val)
         THEN Error(ArnMessage \o join(pathSegments, <<".">>) \o InWord \o messageContext)
    ELSE IF includes([i \in DOMAIN node.val |-> toLowerCase(node.val[i])], S3Marker)
            /\ ~includes(node.val, BEGIN_STRING_TOKEN_MARKER)
         THEN Error(S3Message \o join(pathSegments, <<".">>) \o InWord \o messageContext)
    ELSE NoError

\* the visitor without the early return for unresolved strings
SanitizerVisitor_NoTokenExemption(node, pathSegments, messageContext) ==
    IF node.kind # "string" THEN NoError
    ELSE IF ArnRegexTest(node.val)
         THEN Error(ArnMessage \o join(pathSegments, <<".">>) \o InWord \o messageContext)
    ELSE IF includes(node.val, S3Marker) /\ ~includes(node.val, BEGIN_STRING_TOKEN_MARKER)
         THEN Error(S3Message \o join(pathSegments, <<".">>) \o InWord \o messageContext)
    ELSE NoError

\* the visitor without the token-marker test of the S3 rule
SanitizerVisitor_NoMarkerTest(node, pathSegments, messageContext) ==
    IF node.kind # "string" THEN NoError
    ELSE IF isUnresolved(node) THEN NoError
    ELSE IF ArnRegexTest(node.val)
         THEN Error(ArnMessage \o join(pathSegments, <<".">>) \o InWord \o messageContext)
    ELSE IF includes(node.val, S3Marker)
         THEN Error(S3Message \o join(pathSegments, <<".">>) \o InWord \o messageContext)
    ELSE NoError

\* the visitor closure of assertNoHardCodedValues: the error it throws on
\* the node, NoError when it returns
SanitizerVisitor(node, pathSegments, messageContext) ==
    IF node.kind # "string" THEN NoError
    ELSE IF isUnresolved(node) THEN NoError
    ELSE IF ArnRegexTest(node.val)
         THEN Error(ArnMessage \o join(pathSegments, <<".">>) \o InWord \o messageContext)
    ELSE IF includes(node.val, S3Marker) /\ ~includes(node.val, BEGIN_STRING_TOKEN_MARKER)
         THEN Error(S3Message \o join(pathSegments, <<".">>) \o InWord \o messageContext)
    ELSE NoError

\* closures passed to visitJson as its visitor argument
SanitizerClosure(messageContext) == [type |-> "sanitizer", messageContext |-> messageContext]
\* a visitor that returns for every node
ReturningClosure == [type |-> "returning", messageContext |-> <<>>]

\* visitor(value, pathSegments): the error the visitor throws, NoError when it returns
CallVisitor(visitor, node, pathSegments) ==
    IF visitor.type = "sanitizer"
    THEN SanitizerVisitor(node, pathSegments, visitor.messageContext)
    ELSE NoError

\* state of a traversal: the visitor calls made so far, and the exception
\* in flight (NoError while the traversal is running normally)
VisitStart == [visited |-> <<>>, thrown |-> NoError]

RECURSIVE visitJson(_, _, _, _)
RECURSIVE visitItems(_, _, _, _, _)
RECURSIVE visitEntries(_, _, _, _, _)

\* value.forEach((item, index) => visitJson(item, visitor, [...pathSegments, index]))
visitItems(items, index, visitor, pathSegments, st) ==
    IF index > Len(items) \/ st.thrown # NoError THEN st
    ELSE visitItems(items, index + 1, visitor, pathSegments,
                    visitJson(items[index], visitor,
                              Append(pathSegments, IndexSegment(index - 1)), st))

\* Object.keys(value).forEach((key) => visitJson(value[key], visitor, [...pathSegments, key]))
visitEntries(entries, n, visitor, pathSegments, st) ==
    IF n > Len(entries) \/ st.thrown # NoError THEN st
    ELSE visitEntries(entries, n + 1, visitor, pathSegments,
                      visitJson(entries[n][2], visitor,
                                Append(pathSegments, KeySegment(entries[n][1])), st))

visitJson(value, visitor, pathSegments, st) ==
    IF st.thrown # NoError THEN st
    ELSE LET called == [visited |-> Append(st.visited, [node |-> value, path |-> pathSegments]),
                        thrown |-> CallVisitor(visitor, value, pathSegments)]
         IN IF called.thrown # NoError THEN called
            ELSE IF value.kind = "array"
                 THEN visitItems(value.val, 1, visitor, pathSegments, called)
            ELSE IF Truthy(value) /\ typeof(value) = "object" /\ ~isUnresolved(value)
                 THEN visitEntries(value.val, 1, visitor, pathSegments, called)
            ELSE called

assertNoHardCodedValues(value, messageContext) ==
    visitJson(value, SanitizerClosure(messageContext), <<>>, VisitStart)

----------------------------------------------------------------------------
(* Inputs of assertNoHardCodedValues *)

\* the literal of src/test/json-template.test.ts, "throws when hard-coded arn detected"
TestHardCodedArn ==
    <<"a", "r", "n", ":", "a", "w", "s", ":", "q", "u", "i", "c", "k", "s", "i", "g", "h", "t", ":", "u", "s", "-", "e", "a", "s", "t", "-", "1", ":", "1", "2", "3", "4", "5", "6", "7", "8", "9", "0", "1", "2", ":", "d", "a", "t", "a", "s", "e", "t", "/", "e", "x", "a", "m", "p", "l", "e">>

\* stack.formatArn({service: 'quicksight', resource: 'dataset', resourceName: 'example'})
TestTokenizedArn ==
    <<"a", "r", "n", ":", "$", "{", "T", "o", "k", "e", "n", "[", "A", "W", "S", ".", "P", "a", "r", "t", "i", "t", "i", "o", "n", ".", "3", "]", "}", ":", "q", "u", "i", "c", "k", "s", "i", "g", "h", "t", ":", "$", "{", "T", "o", "k", "e", "n", "[", "A", "W", "S", ".", "R", "e", "g", "i", "o", "n", ".", "4", "]", "}", ":", "$", "{", "T", "o", "k", "e", "n", "[", "A", "W", "S", ".", "A", "c", "c", "o", "u", "n", "t", "I", "d", ".", "0", "]", "}", ":", "d", "a", "t", "a", "s", "e", "t", "/", "e", "x", "a", "m", "p", "l", "e">>

HardArn ==
    <<"a", "r", "n", ":", "a", "w", "s", ":", "q", ":", "r", ":", "1", "2", "3", "4", "5", "6", "7", "8", "9", "0", "1", "2", ":", "d">>

HardS3 ==
    <<"s", "3", ":", "/", "/", "b">>

TokenizedHardArn ==
    <<"a", "r", "n", ":", "a", "w", "s", ":", "q", ":", "r", ":", "1", "2", "3", "4", "5", "6", "7", "8", "9", "0", "1", "2", ":", "$", "{", "T", "o", "k", "e", "n", "[", "T", ".", "1", "]", "}">>

CoreLeaves ==
    {Str(HardArn), Str(HardS3), Str(TokenizedHardArn), Str(<<"o", "k">>), Resolvable(1)}

ArnLikeStrings ==
    {p \o sc \o sv \o <<":">> \o rg \o <<":">> \o ac \o tl :
        p \in {<<>>, <<"x">>},
        sc \in {ArnPrefix, <<"A", "R", "N", ":", "A", "w", "s", ":">>, <<"a", "r", "n", ":", "a", "w", ":">>},
        sv \in {<<"q">>, <<>>},
        rg \in {<<"r">>, <<>>},
        ac \in {<<"1", "2", "3", "4", "5", "6", "7", "8", "9", "0", "1", "2">>, <<"1", "2", "3", "4", "5", "6", "7", "8", "9", "0", "1">>, <<"1", "2", "3", "4", "5", "6", "7", "8", "9", "0", "1", "2", "3">>, <<"1", "2", "3", "4", "5", "6", "7", "8", "9", "0", "1", "a">>},
        tl \in {<<":", "d">>, <<>>}}

StringSuffixes ==
    {<<>>, <<"s", "3", ":", "/", "/", "b">>, <<"S", "3", ":", "/", "/", "b">>, BEGIN_STRING_TOKEN_MARKER, <<"$", "{", "T", "o", "k", "e", "n", "[", "T", ".", "1", "]", "}">>,
     <<"s", "3", ":", "/", "/", "b">> \o BEGIN_STRING_TOKEN_MARKER,
     <<"s", "3", ":", "/", "/", "b">> \o <<"$", "{", "T", "o", "k", "e", "n", "[", "T", ".", "1", "]", "}">>,
     <<"s", "3", ":", "/", "b">>}

RichStrings ==
    {b \o sfx : b \in ArnLikeStrings \cup {<<>>, <<"o", "k">>}, sfx \in StringSuffixes}
        \cup {TestHardCodedArn, TestTokenizedArn}

Keys == {<<"a">>, <<"b">>}

\* the sequences of n distinct keys
KeySeqs(n) == {ks \in [1..n -> Keys] : \A i, j \in 1..n : ks[i] = ks[j] => i = j}

RECURSIVE TreesOfSize(_)
RECURSIVE Forests(_)

\* the sequences of trees with n nodes in total
Forests(n) ==
    IF n = 0 THEN {<<>>}
    ELSE UNION {{<<t>> \o f : t \in TreesOfSize(k), f \in Forests(n - k)} : k \in 1..n}

\* the trees with exactly n nodes over the core leaves
TreesOfSize(n) ==
    IF n = 1 THEN CoreLeaves \cup {Arr(<<>>), Obj(<<>>)}
    ELSE {Arr(f) : f \in Forests(n - 1)}
         \cup UNION {{Obj([i \in 1..Len(f) |-> <<ks[i], f[i]>>]) : ks \in KeySeqs(Len(f))} :
                        f \in Forests(n - 1)}

\* every rich string as the root, in an array, and at path a.b
RichTrees ==
    UNION {{Str(s), Arr(<<Num(1), Str(s)>>),
            Obj(<< <<(<<"a">>), Obj(<< <<(<<"b">>), Str(s)>> >>)>> >>)} : s \in RichStrings}

\* every tree of at most n nodes over the core leaves
TreesUpTo(n) == UNION {TreesOfSize(k) : k \in 1..n}

TestContext == <<"t", "e", "s", "t">>

MessageContexts ==
    {TestContext, <<"a", "n", "a", "l", "y", "s", "i", "s", "_", "d", "e", "f", "i", "n", "i", "t", "i", "o", "n", ".", "j", "s", "o", "n">>}

----------------------------------------------------------------------------
(* The sanitizer specification: one call of assertNoHardCodedValues *)

SanPending == [status |-> "pending", visited |-> <<>>, thrown |-> NoError]

InitSanitizer ==
    /\ \/ sanValue \in TreesUpTo(MaxNodes) /\ sanContext = TestContext
       \/ sanValue \in RichTrees /\ sanContext \in MessageContexts
    /\ sanOutcome = SanPending
    /\ OthersUnused("san")

CallAssertNoHardCodedValues ==
    /\ sanOutcome.status = "pending"
    /\ LET st == assertNoHardCodedValues(sanValue, sanContext)
       IN sanOutcome' = [status |-> IF st.thrown = NoError THEN "returned" ELSE "threw",
                         visited |-> st.visited,
                         thrown |-> st.thrown]
    /\ UNCHANGED <<sanValue, sanContext>>
    /\ OthersUnchanged("san")

NextSanitizer == CallAssertNoHardCodedValues

SpecSanitizer == InitSanitizer /\ [][NextSanitizer]_vars

----------------------------------------------------------------------------
(* Vocabulary of the sanitizer properties, stated on the tree itself *)

RECURSIVE PreOrder(_, _)
RECURSIVE PreOrderItems(_, _, _)
RECURSIVE PreOrderEntries(_, _, _)

PreOrderItems(items, i, path) ==
    IF i > Len(items) THEN <<>>
    ELSE PreOrder(items[i], Append(path, IndexSegment(i - 1))) \o PreOrderItems(items, i + 1, path)

PreOrderEntries(entries, i, path) ==
    IF i > Len(entries) THEN <<>>
    ELSE PreOrder(entries[i][2], Append(path, KeySegment(entries[i][1])))
            \o PreOrderEntries(entries, i + 1, path)

\* the nodes of a tree with their paths: a node, then its children left to right
PreOrder(v, path) ==
    <<[node |-> v, path |-> path]>> \o
        (IF v.kind = "array" THEN PreOrderItems(v.val, 1, path)
         ELSE IF v.kind = "object" THEN PreOrderEntries(v.val, 1, path)
         ELSE <<>>)

StringLeaves(tree) == {e.node.val : e \in {x \in Range(PreOrder(tree, <<>>)) : x.node.kind = "string"}}

ArnLower == <<"a", "r", "n", ":", "a", "w", "s", ":">>
ArnUpper == <<"A", "R", "N", ":", "A", "W", "S", ":">>

\* arn:aws:<service>:<region>:<12 digits>: somewhere in s, arn:aws in any case
\* (i the start of arn:aws:, j the ':' ending the service, k the ':' ending
\* the region)
HasAccountArn(s) ==
    \E i \in 1..(Len(s) - 24) :
        /\ \A n \in 1..8 : s[i + n - 1] \in {ArnLower[n], ArnUpper[n]}
        /\ \E j \in (i + 9)..(Len(s) - 15) :
              /\ s[j] = ":"
              /\ \A n \in (i + 8)..(j - 1) : s[n] # ":"
              /\ \E k \in (j + 2)..(Len(s) - 13) :
                    /\ s[k] = ":"
                    /\ \A n \in (j + 1)..(k - 1) : s[n] # ":"
                    /\ \A n \in (k + 1)..(k + 12) :
                          s[n] \in {"0", "1", "2", "3", "4", "5", "6", "7", "8", "9"}
                    /\ s[k + 13] = ":"

HasS3Marker(s) == \E i \in 1..(Len(s) - 4) : SubSeq(s, i, i + 4) = <<"s", "3", ":", "/", "/">>

HasTokenMarker(s) == \E i \in 1..(Len(s) - 7) : SubSeq(s, i, i + 7) = <<"$", "{", "T", "o", "k", "e", "n", "[">>

\* a hard-coded value: a string that is not a token and holds an account ARN
\* or an s3:// URI without a token marker
IsHardCoded(v) ==
    /\ v.kind = "string"
    /\ ~TokenStringTest(v.val)
    /\ HasAccountArn(v.val) \/ (HasS3Marker(v.val) /\ ~HasTokenMarker(v.val))

RECURSIVE DottedPath(_)
\* the segments of a path separated by '.'
DottedPath(path) ==
    IF Len(path) = 0 THEN <<>>
    ELSE LET last == path[Len(path)]
             text == IF last.kind = "index" THEN NumberToString(last.val) ELSE last.val
         IN IF Len(path) = 1 THEN text
            ELSE DottedPath(SubSeq(path, 1, Len(path) - 1)) \o <<".">> \o text

SanDone == sanOutcome.status # "pending"
SanThrew == sanOutcome.status = "threw"
SanReturned == sanOutcome.status = "returned"

----------------------------------------------------------------------------
(* Properties of assertNoHardCodedValues, checked under SpecSanitizer *)

\* C1: whenever some string leaf of the tree that is not an unresolved token
\* holds arn:aws:<service>:<region>:<12 digits>: (arn:aws in any letter
\* case), the call throws instead of returning.
C1_HardCodedArnThrows ==
    (SanDone /\ \E s \in StringLeaves(sanValue) : ~TokenStringTest(s) /\ HasAccountArn(s))
        => SanThrew

C1_Witness ==
    /\ SanThrew
    /\ sanValue.kind = "object"
    /\ \E s \in StringLeaves(sanValue) :
          ~TokenStringTest(s) /\ HasAccountArn(s) /\ s[1] = "A" /\ ~HasS3Marker(s)

\* C2: a tree in which no string leaf holds the account ARN pattern and no
\* string leaf contains s3:// makes the call return without throwing.
C2_CleanTreeReturns ==
    (SanDone /\ \A s \in StringLeaves(sanValue) : ~HasAccountArn(s) /\ ~HasS3Marker(s))
        => SanReturned

C2_Witness ==
    /\ SanReturned
    /\ Cardinality(StringLeaves(sanValue)) >= 1
    /\ \A s \in StringLeaves(sanValue) : ~HasAccountArn(s) /\ ~HasS3Marker(s)
    /\ \E s \in StringLeaves(sanValue) : Len(s) > 20

\* C3: the call never throws at a node that is an unresolved value or a
\* string carrying a token; a tree whose string leaves all carry a token is
\* accepted, whatever else those strings contain.
C3_TokensNeverFlagged ==
    /\ SanThrew =>
          LET failing == sanOutcome.visited[Len(sanOutcome.visited)].node
          IN failing.kind = "string" /\ ~TokenStringTest(failing.val)
    /\ (SanDone /\ \A s \in StringLeaves(sanValue) : TokenStringTest(s)) => SanReturned

C3_Witness ==
    /\ SanReturned
    /\ \E s \in StringLeaves(sanValue) : TokenStringTest(s) /\ HasAccountArn(s)
    /\ \E s \in StringLeaves(sanValue) : TokenStringTest(s) /\ HasS3Marker(s)

\* C4 as stated: a leaf containing s3:// makes the call throw exactly when
\* it has no token marker (trees whose string leaves all contain s3://).
C4_Original ==
    (SanDone /\ StringLeaves(sanValue) # {} /\ \A s \in StringLeaves(sanValue) : HasS3Marker(s))
        => (SanThrew <=> \E s \in StringLeaves(sanValue) : ~HasTokenMarker(s))

\* C4 amended: in a tree without a hard-coded account ARN, the call throws
\* exactly when some string leaf contains s3:// and no token marker
\* "${Token["; a leaf with s3:// and the marker is accepted.
C4_S3MarkerRule ==
    (SanDone /\ \A s \in StringLeaves(sanValue) : TokenStringTest(s) \/ ~HasAccountArn(s))
        => (SanThrew <=> \E s \in StringLeaves(sanValue) : HasS3Marker(s) /\ ~HasTokenMarker(s))

C4_Witness ==
    /\ SanReturned
    /\ \E s \in StringLeaves(sanValue) :
          HasS3Marker(s) /\ HasTokenMarker(s) /\ ~TokenStringTest(s) /\ ~HasAccountArn(s)

C4_WitnessThrows ==
    /\ SanThrew
    /\ \A s \in StringLeaves(sanValue) : ~HasAccountArn(s)
    /\ \E s \in StringLeaves(sanValue) : HasS3Marker(s) /\ ~HasTokenMarker(s)

\* C5: when the tree holds a hard-coded leaf, the call throws at the first
\* one in pre-order: the visitor was called on the nodes up to that leaf
\* and on no later node, and the message is the kind of violation, the
\* leaf's path joined by '.', " in " and the caller's context.
C5_FirstViolationPath ==
    LET pre == PreOrder(sanValue, <<>>)
        bad == {i \in 1..Len(pre) : IsHardCoded(pre[i].node)}
    IN (SanDone /\ bad # {}) =>
          LET first == CHOOSE i \in bad : \A j \in bad : i <= j
              where == DottedPath(pre[first].path) \o <<" ", "i", "n", " ">> \o sanContext
          IN /\ SanThrew
             /\ sanOutcome.visited = SubSeq(pre, 1, first)
             /\ sanOutcome.thrown.name = "Error"
             /\ sanOutcome.thrown.message \in {ArnMessage \o where, S3Message \o where}

C5_Witness ==
    LET pre == PreOrder(sanValue, <<>>)
    IN /\ SanThrew
       /\ Len(sanOutcome.visited) < Len(pre)
       /\ IsHardCoded(pre[Len(pre)].node)
       /\ sanOutcome.visited[Len(sanOutcome.visited)].path = <<KeySegment(<<"a">>), KeySegment(<<"b">>)>>
       /\ sanOutcome.thrown.message =
             ArnMessage \o <<"a", ".", "b", " ", "i", "n", " ", "t", "e", "s", "t">>

----------------------------------------------------------------------------
(* cur-parameters: lookupFromConfig and createStringParameter *)

TypeError == [name |-> "TypeError", message |-> <<>>]

\* the completion of an expression: a value, or an exception
Normal(v) == [thrown |-> NoError, value |-> v]
Abrupt(e) == [thrown |-> e, value |-> Undefined]

\* obj[key]: reading a property of undefined or null throws a TypeError
PropertyAccess(obj, key) ==
    IF obj.kind \in {"undefined", "null"} THEN Abrupt(TypeError)
    ELSE IF obj.kind = "object" /\ \E i \in 1..Len(obj.val) : obj.val[i][1] = key
         THEN Normal(obj.val[CHOOSE i \in 1..Len(obj.val) : obj.val[i][1] = key][2])
    ELSE Normal(Undefined)

\* lookupFromConfig with sources.stack[key] read without the `sources.stack &&` guard
lookupFromConfig_NoLayerGuard(sources, key) ==
    LET fromStack == PropertyAccess(sources.stack, key)
    IN IF fromStack.thrown # NoError THEN fromStack
       ELSE IF typeof(fromStack.value) = "string" /\ Len(fromStack.value.val) > 0
            THEN fromStack
       ELSE LET fromGlobal == IF Truthy(sources.global)
                              THEN PropertyAccess(sources.global, key)
                              ELSE Normal(sources.global)
            IN IF fromGlobal.thrown # NoError THEN fromGlobal
               ELSE IF typeof(fromGlobal.value) = "string" /\ Len(fromGlobal.value.val) > 0
                    THEN fromGlobal
               ELSE Normal(Undefined)

lookupFromConfig(sources, key) ==
    LET fromStack == IF Truthy(sources.stack)
                     THEN PropertyAccess(sources.stack, key)
                     ELSE Normal(sources.stack)
    IN IF fromStack.thrown # NoError THEN fromStack
       ELSE IF typeof(fromStack.value) = "string" /\ Len(fromStack.value.val) > 0
            THEN fromStack
       ELSE LET fromGlobal == IF Truthy(sources.global)
                              THEN PropertyAccess(sources.global, key)
                              ELSE Normal(sources.global)
            IN IF fromGlobal.thrown # NoError THEN fromGlobal
               ELSE IF typeof(fromGlobal.value) = "string" /\ Len(fromGlobal.value.val) > 0
                    THEN fromGlobal
               ELSE Normal(Undefined)

\* a ?? b
NullishCoalesce(a, b) == IF a.kind \in {"undefined", "null"} THEN b ELSE a

\* param.valueAsString: a string token standing for { Ref: id }
valueAsString ==
    <<"$", "{", "T", "o", "k", "e", "n", "[", "T", "O", "K", "E", "N", ".", "4", "7", "]", "}">>

NoDefinition == [parameter |-> Undefined, value |-> Undefined, resolved |-> Undefined]

\* createStringParameter(stack, id, props, sources); contextValue is what
\* stack.node.tryGetContext(id) returns
createStringParameter(contextValue, id, props, sources) ==
    LET paramDefault == props.default
        config == lookupFromConfig(sources, id)
    IN IF config.thrown # NoError
       THEN [thrown |-> config.thrown, definition |-> NoDefinition]
       ELSE LET overrideValue == NullishCoalesce(contextValue, config.value)
                overridden == overrideValue # Undefined /\ overrideValue # Null
                                /\ overrideValue # Str(<<>>)
                providedDefault == props.default
                resolved == IF typeof(overrideValue) = "string" /\ Len(overrideValue.val) > 0
                            THEN overrideValue
                            ELSE IF typeof(providedDefault) = "string" /\ Len(providedDefault.val) > 0
                                 THEN providedDefault
                                 ELSE Undefined
            IN [thrown |-> NoError,
                definition |->
                    [parameter |-> [id |-> id,
                                    default |-> IF overridden THEN overrideValue ELSE paramDefault],
                     value |-> Str(valueAsString),
                     resolved |-> resolved]]

----------------------------------------------------------------------------
(* Inputs of createStringParameter: the declarations of createSharedParameters *)

\* cdk.Fn.sub('aws-athena-query-results-${AWS::Region}-${AWS::AccountId}'): a string token
FnSubToken ==
    <<"$", "{", "T", "o", "k", "e", "n", "[", "T", "O", "K", "E", "N", ".", "1", "2", "1", "]", "}">>

CurExportBucketName ==
    <<"C", "u", "r", "E", "x", "p", "o", "r", "t", "B", "u", "c", "k", "e", "t", "N", "a", "m", "e">>

DailyRefreshTimeLocal ==
    <<"D", "a", "i", "l", "y", "R", "e", "f", "r", "e", "s", "h", "T", "i", "m", "e", "L", "o", "c", "a", "l">>

Timezone ==
    <<"T", "i", "m", "e", "z", "o", "n", "e">>

RlsAthenaResultsBucketName ==
    <<"R", "l", "s", "A", "t", "h", "e", "n", "a", "R", "e", "s", "u", "l", "t", "s", "B", "u", "c", "k", "e", "t", "N", "a", "m", "e">>

dailyRefreshDefault ==
    <<"1", "0", ":", "0", "0">>

timezoneDefault ==
    <<"A", "s", "i", "a", "/", "B", "a", "n", "g", "k", "o", "k">>

\* (id, props) of four of the calls made by createSharedParameters
ParameterDeclarations ==
    {[id |-> CurExportBucketName, props |-> [default |-> Undefined]],
     [id |-> DailyRefreshTimeLocal, props |-> [default |-> Str(dailyRefreshDefault)]],
     [id |-> Timezone, props |-> [default |-> Str(timezoneDefault)]],
     [id |-> RlsAthenaResultsBucketName, props |-> [default |-> Str(FnSubToken)]]}

CliValue ==
    <<"c", "l", "i">>

StackValue ==
    <<"s", "t", "a", "c", "k">>

GlobalValue ==
    <<"g", "l", "o", "b", "a", "l">>

UnrelatedKey ==
    <<"U", "n", "r", "e", "l", "a", "t", "e", "d">>

\* what stack.node.tryGetContext(id) can return
ContextValues ==
    {Undefined, Null, Str(<<>>), Str(CliValue), Num(5), Num(0), Bool(TRUE), Bool(FALSE)}

\* a configuration layer (Record<string, any> | undefined) for parameter id
\* holding string s: missing, null, without the key, or with the key bound
\* to a JSON value
Layers(id, s) ==
    {Undefined, Null, Obj(<<>>), Obj(<< <<UnrelatedKey, Str(s)>> >>)}
        \cup {Obj(<< <<UnrelatedKey, Str(CliValue)>>, <<id, v>> >>) :
                v \in {Str(<<>>), Str(s), Num(7), Bool(TRUE), Null}}

----------------------------------------------------------------------------
(* The parameter specification: one call of createStringParameter *)

PrmPending == [status |-> "pending", thrown |-> NoError, definition |-> NoDefinition]

InitParameters ==
    /\ \E decl \in ParameterDeclarations :
          prmInput \in [contextValue : ContextValues,
                        id : {decl.id},
                        props : {decl.props},
                        sources : [stack : Layers(decl.id, StackValue),
                                   global : Layers(decl.id, GlobalValue)]]
    /\ prmOutcome = PrmPending
    /\ OthersUnused("prm")

CallCreateStringParameter ==
    /\ prmOutcome.status = "pending"
    /\ LET r == createStringParameter(prmInput.contextValue, prmInput.id,
                                      prmInput.props, prmInput.sources)
       IN prmOutcome' = [status |-> IF r.thrown = NoError THEN "returned" ELSE "threw",
                         thrown |-> r.thrown,
                         definition |-> r.definition]
    /\ UNCHANGED prmInput
    /\ OthersUnchanged("prm")

NextParameters == CallCreateStringParameter

SpecParameters == InitParameters /\ [][NextParameters]_vars

----------------------------------------------------------------------------
(* Properties of createStringParameter, checked under SpecParameters *)

PrmDone == prmOutcome.status # "pending"

\* the value a layer holds for the parameter, Undefined when the layer or
\* the key is missing
LayerValue(layer) ==
    IF layer.kind = "object" /\ \E i \in 1..Len(layer.val) : layer.val[i][1] = prmInput.id
    THEN layer.val[CHOOSE i \in 1..Len(layer.val) : layer.val[i][1] = prmInput.id][2]
    ELSE Undefined

OverrideIn == prmInput.contextValue
StackIn == LayerValue(prmInput.sources.stack)
GlobalIn == LayerValue(prmInput.sources.global)
DefaultIn == prmInput.props.default
ResolvedOut == prmOutcome.definition.resolved

NonEmptyString(v) == v.kind = "string" /\ v.val # <<>>

\* a plain string, as opposed to a deferred expression
PlainString(v) == v.kind = "string" /\ ~TokenStringTest(v.val)
Deferred(v) == v.kind = "resolvable" \/ (v.kind = "string" /\ TokenStringTest(v.val))

\* C6: with override, stack and global values all non-empty strings the
\* resolved value is the override; without the override, the stack value;
\* without override and stack value, the global value; without all three,
\* the default when it is a plain string and absent when the default is a
\* deferred expression.
C6_Precedence ==
    PrmDone =>
       /\ (NonEmptyString(OverrideIn) /\ NonEmptyString(StackIn) /\ NonEmptyString(GlobalIn))
             => ResolvedOut = OverrideIn
       /\ (OverrideIn = Undefined /\ NonEmptyString(StackIn) /\ NonEmptyString(GlobalIn))
             => ResolvedOut = StackIn
       /\ (OverrideIn = Undefined /\ StackIn = Undefined /\ NonEmptyString(GlobalIn))
             => ResolvedOut = GlobalIn
       /\ (OverrideIn = Undefined /\ StackIn = Undefined /\ GlobalIn = Undefined)
             => /\ PlainString(DefaultIn) => ResolvedOut = DefaultIn
                /\ Deferred(DefaultIn) => ResolvedOut = Undefined

\* C7: a layer whose value is the empty string or absent is skipped, the
\* override included: with an empty override the first non-empty string of
\* the stack and global layers is the resolved value and the live default.
C7_EmptyLayersSkipped ==
    (PrmDone /\ OverrideIn \in {Undefined, Str(<<>>)}) =>
       /\ NonEmptyString(StackIn) =>
             /\ ResolvedOut = StackIn
             /\ prmOutcome.definition.parameter.default = StackIn
       /\ (StackIn \in {Undefined, Str(<<>>)} /\ NonEmptyString(GlobalIn)) =>
             /\ ResolvedOut = GlobalIn
             /\ prmOutcome.definition.parameter.default = GlobalIn

\* the winning override: the first of override, stack value and global
\* value that is a non-empty string, Undefined when there is none
Winner ==
    IF NonEmptyString(OverrideIn) THEN OverrideIn
    ELSE IF NonEmptyString(StackIn) THEN StackIn
    ELSE IF NonEmptyString(GlobalIn) THEN GlobalIn
    ELSE Undefined

\* C8: the resolved value is the winning override when there is one,
\* otherwise the declared default when it is a plain string, otherwise absent.
C8_ResolvedValue ==
    PrmDone =>
       ResolvedOut = (IF Winner # Undefined THEN Winner
                      ELSE IF PlainString(DefaultIn) THEN DefaultIn
                      ELSE Undefined)

\* C9: createStringParameter never throws, whatever the override, the
\* layers (missing, null, non-string values) and the default are: it
\* returns a definition whose value is the parameter's deferred handle, and
\* the resolved value is a string or absent.
C9_NeverFails ==
    PrmDone =>
       /\ prmOutcome.status = "returned"
       /\ prmOutcome.thrown = NoError
       /\ prmOutcome.definition.parameter.id = prmInput.id
       /\ prmOutcome.definition.value.kind = "string"
       /\ TokenStringTest(prmOutcome.definition.value.val)
       /\ ResolvedOut = Undefined \/ ResolvedOut.kind = "string"

C9_Witness ==
    /\ prmOutcome.status = "returned"
    /\ prmInput.sources.stack = Undefined
    /\ prmInput.sources.global = Null
    /\ prmInput.contextValue = Num(5)
    /\ prmInput.props.default = Undefined
    /\ ResolvedOut = Undefined
    /\ TokenStringTest(prmOutcome.definition.value.val)

\* the override the lookup finds: the explicit override when it is present
\* and not the empty string, otherwise the first non-empty string of the
\* stack and global layers, Undefined when there is none
FoundOverride ==
    IF OverrideIn \notin {Undefined, Null, Str(<<>>)} THEN OverrideIn
    ELSE IF NonEmptyString(StackIn) THEN StackIn
    ELSE IF NonEmptyString(GlobalIn) THEN GlobalIn
    ELSE Undefined

\* C21: when an override value is found, in the explicit override or in a
\* configuration layer, the default of the parameter's handle is exactly
\* that override; when none is found the handle keeps its declared default.
C21_LiveValueIsOverride ==
    PrmDone =>
       prmOutcome.definition.parameter.default =
          (IF FoundOverride # Undefined THEN FoundOverride ELSE DefaultIn)

\* the value the code writes to the handle: contextValue ?? configValue,
\* when it is not undefined, null or the empty string
WrittenOverride ==
    LET overrideValue ==
           NullishCoalesce(OverrideIn, IF NonEmptyString(StackIn) THEN StackIn
                                       ELSE IF NonEmptyString(GlobalIn) THEN GlobalIn
                                       ELSE Undefined)
    IN IF overrideValue \in {Undefined, Null, Str(<<>>)} THEN Undefined ELSE overrideValue

\* C26: when the default of the handle was overwritten by an override, of
\* whatever type, the resolved value is present and equal to the value
\* written to the handle.
C26_ResolvedEqualsLiveValue ==
    (PrmDone /\ WrittenOverride # Undefined) =>
       /\ prmOutcome.definition.parameter.default = WrittenOverride
       /\ ResolvedOut # Undefined
       /\ ResolvedOut = prmOutcome.definition.parameter.default

----------------------------------------------------------------------------
(* quicksight-stack: convertLocalTimeToUtc and getTimeZoneOffset.          *)
(* Instants are counted in seconds since 1970-01-01T00:00:00Z: every       *)
(* millisecond field the code handles is 0.                                *)

RangeError == [name |-> "RangeError", message |-> <<>>]

NaN == [nan |-> TRUE, n |-> 0]
Number(n) == [nan |-> FALSE, n |-> n]

RECURSIVE split(_, _)
\* String.prototype.split with a one-character separator
split(s, sep) ==
    IF \E i \in 1..Len(s) : s[i] = sep
    THEN LET i == CHOOSE i \in 1..Len(s) : s[i] = sep /\ \A j \in 1..(i - 1) : s[j] # sep
         IN <<SubSeq(s, 1, i - 1)>> \o split(SubSeq(s, i + 1, Len(s)), sep)
    ELSE <<s>>

DigitValue(c) == (CHOOSE i \in 1..10 : Digits[i] = c) - 1

RECURSIVE ParseDigits(_, _, _)
\* the value of the longest run of digits starting at s[i], acc so far
ParseDigits(s, i, acc) ==
    IF i <= Len(s) /\ IsDigit(s[i])
    THEN ParseDigits(s, i + 1, acc * 10 + DigitValue(s[i]))
    ELSE acc

RECURSIVE SkipWhiteSpace(_, _)
SkipWhiteSpace(s, i) ==
    IF i <= Len(s) /\ s[i] = " " THEN SkipWhiteSpace(s, i + 1) ELSE i

\* parseInt(s, 10); parseInt(undefined, 10) is NaN
parseInt(v) ==
    IF v.kind # "string" THEN NaN
    ELSE Only({LET signed == i <= Len(s) /\ s[i] \in {"+", "-"}
                   j == IF signed THEN i + 1 ELSE i
               IN IF j <= Len(s) /\ IsDigit(s[j])
                  THEN Number((IF signed /\ s[i] = "-" THEN -1 ELSE 1) * ParseDigits(s, j, 0))
                  ELSE NaN :
               <<s, i>> \in {<<v.val, SkipWhiteSpace(v.val, 1)>>}})

\* days from 1970-01-01 to the civil date year-month-day, month in 1..12
DaysFromCivil(year, month, day) ==
    LET y == IF month <= 2 THEN year - 1 ELSE year
        era == y \div 400
        yoe == y - era * 400
        mp == IF month > 2 THEN month - 3 ELSE month + 9
        doy == (153 * mp + 2) \div 5 + day - 1
        doe == yoe * 365 + yoe \div 4 - yoe \div 100 + doy
    IN era * 146097 + doe - 719468

\* the civil date of a day number
CivilFromDays(days) ==
    LET z == days + 719468
        era == z \div 146097
        doe == z - era * 146097
        yoe == (doe - doe \div 1460 + doe \div 36524 - doe \div 146096) \div 365
        doy == doe - (365 * yoe + yoe \div 4 - yoe \div 100)
        mp == (5 * doy + 2) \div 153
        month == IF mp < 10 THEN mp + 3 ELSE mp - 9
    IN [year |-> IF month <= 2 THEN yoe + era * 400 + 1 ELSE yoe + era * 400,
        month |-> month,
        day |-> doy - (153 * mp + 2) \div 5 + 1]

\* Date.UTC(year, monthIndex, day, hour, minute, second), monthIndex in 0..11
DateUTC(year, monthIndex, day, hour, minute, second) ==
    IF year.nan \/ monthIndex.nan \/ day.nan \/ hour.nan \/ minute.nan \/ second.nan
    THEN NaN
    ELSE Number(DaysFromCivil(year.n, monthIndex.n + 1, day.n) * 86400
                    + hour.n * 3600 + minute.n * 60 + second.n)

\* String.prototype.padStart(2, '0')
padStart2(s) == IF Len(s) < 2 THEN <<"0">> \o s ELSE s

AsiaBangkok ==
    <<"A", "s", "i", "a", "/", "B", "a", "n", "g", "k", "o", "k">>
AmericaNewYork ==
    <<"A", "m", "e", "r", "i", "c", "a", "/", "N", "e", "w", "_", "Y", "o", "r", "k">>
UTC ==
    <<"U", "T", "C">>
AsiaKolkata ==
    <<"A", "s", "i", "a", "/", "K", "o", "l", "k", "a", "t", "a">>
PacificAuckland ==
    <<"P", "a", "c", "i", "f", "i", "c", "/", "A", "u", "c", "k", "l", "a", "n", "d">>
EtcGMTPlus12 ==
    <<"E", "t", "c", "/", "G", "M", "T", "+", "1", "2">>
EtcGMTMinus14 ==
    <<"E", "t", "c", "/", "G", "M", "T", "-", "1", "4">>
AfricaMonrovia ==
    <<"A", "f", "r", "i", "c", "a", "/", "M", "o", "n", "r", "o", "v", "i", "a">>
NotAZone ==
    <<"N", "o", "t", "/", "A", "Z", "o", "n", "e">>

\* the zones the runtime resolves, with their civil offset from UTC, in
\* seconds, on 1970-01-01 (IANA time zone database)
ZoneOffsets ==
    {<<AsiaBangkok, 25200>>, <<AmericaNewYork, -18000>>, <<UTC, 0>>, <<AsiaKolkata, 19800>>,
     <<PacificAuckland, 43200>>, <<EtcGMTPlus12, -43200>>, <<EtcGMTMinus14, 50400>>,
     <<AfricaMonrovia, -2670>>}

IsResolvableZone(timeZone) == \E z \in ZoneOffsets : z[1] = timeZone

ZoneOffset(timeZone) == (CHOOSE z \in ZoneOffsets : z[1] = timeZone)[2]

\* dtf.formatToParts(date) collected into `data`: the wall-clock fields of
\* the instant in the zone. With hour12: false the runtime prints midnight
\* as "00" or as "24", depending on its ICU version (hourCycle).
formatToParts(date, timeZone, hourCycle) ==
    LET local == date + ZoneOffset(timeZone)
        civil == CivilFromDays(local \div 86400)
        secs == local % 86400
        hour == IF hourCycle = "h24" /\ secs \div 3600 = 0 THEN 24 ELSE secs \div 3600
    IN [year |-> Str(NumberToString(civil.year)),
        month |-> Str(padStart2(NumberToString(civil.month))),
        day |-> Str(padStart2(NumberToString(civil.day))),
        hour |-> Str(padStart2(NumberToString(hour))),
        minute |-> Str(padStart2(NumberToString((secs % 3600) \div 60))),
        second |-> Str(padStart2(NumberToString(secs % 60)))]

\* getTimeZoneOffset with an unknown zone read as UTC instead of rejected
getTimeZoneOffset_UnknownZoneAsUtc(date, timeZone, hourCycle) ==
    IF date.nan THEN Abrupt(RangeError)
    ELSE IF ~IsResolvableZone(timeZone) THEN Normal(0)
    ELSE Only({LET asUtc == DateUTC(parseInt(data.year),
                                    Number(parseInt(data.month).n - 1),
                                    parseInt(data.day),
                                    parseInt(data.hour),
                                    parseInt(data.minute),
                                    parseInt(data.second))
               IN Normal(asUtc.n - date.n) :
               data \in {formatToParts(date.n, timeZone, hourCycle)}})

\* getTimeZoneOffset(date, timeZone): the Intl.DateTimeFormat constructor
\* throws a RangeError for an unknown zone, formatToParts for an invalid date
getTimeZoneOffset(date, timeZone, hourCycle) ==
    IF ~IsResolvableZone(timeZone) THEN Abrupt(RangeError)
    ELSE IF date.nan THEN Abrupt(RangeError)
    ELSE Only({LET asUtc == DateUTC(parseInt(data.year),
                                    Number(parseInt(data.month).n - 1),
                                    parseInt(data.day),
                                    parseInt(data.hour),
                                    parseInt(data.minute),
                                    parseInt(data.second))
               IN Normal(asUtc.n - date.n) :
               data \in {formatToParts(date.n, timeZone, hourCycle)}})

\* the conversion with the offset added to the reference instead of subtracted
convertLocalTimeToUtc_AddsOffset(localTime, timezone, hourCycle) ==
    LET parts == split(localTime, ":")
        hour == parseInt(Str(parts[1]))
        minute == parseInt(IF Len(parts) >= 2 THEN Str(parts[2]) ELSE Undefined)
    IN Only({Only({IF offset.thrown # NoError THEN offset
                   ELSE LET utcDate == reference.n + offset.value
                            getUTCHours == (utcDate % 86400) \div 3600
                            getUTCMinutes == (utcDate % 3600) \div 60
                        IN Normal(Str(padStart2(NumberToString(getUTCHours)) \o <<":">>
                                        \o padStart2(NumberToString(getUTCMinutes)))) :
                   offset \in {getTimeZoneOffset(reference, timezone, hourCycle)}}) :
             reference \in {DateUTC(Number(1970), Number(0), Number(1), hour, minute, Number(0))}})

convertLocalTimeToUtc(localTime, timezone, hourCycle) ==
    LET parts == split(localTime, ":")
        hour == parseInt(Str(parts[1]))
        minute == parseInt(IF Len(parts) >= 2 THEN Str(parts[2]) ELSE Undefined)
    IN Only({Only({IF offset.thrown # NoError THEN offset
                   ELSE LET utcDate == reference.n - offset.value
                            getUTCHours == (utcDate % 86400) \div 3600
                            getUTCMinutes == (utcDate % 3600) \div 60
                        IN Normal(Str(padStart2(NumberToString(getUTCHours)) \o <<":">>
                                        \o padStart2(NumberToString(getUTCMinutes)))) :
                   offset \in {getTimeZoneOffset(reference, timezone, hourCycle)}}) :
             reference \in {DateUTC(Number(1970), Number(0), Number(1), hour, minute, Number(0))}})

----------------------------------------------------------------------------
(* Inputs of convertLocalTimeToUtc *)

\* every zero-padded HH:MM with HH in 00..23 and MM in 00..59
WellFormedTimes ==
    {<<Digits[(h \div 10) + 1], Digits[(h % 10) + 1], ":",
       Digits[(m \div 10) + 1], Digits[(m % 10) + 1]>> : h \in 0..23, m \in 0..59}

OtherTimes ==
    {<<"2", "5", ":", "0", "0">>, <<"1", "0", ":", "6", "0">>, <<"7", ":", "5">>, <<"1", "0">>,
     <<"a", "b", ":", "c", "d">>, <<"-", "1", ":", "3", "0">>, <<" ", "9", ":", "0", "5">>,
     <<"1", "0", ":", "0", "0", ":", "5", "9">>, <<>>}

TimeZones == {z[1] : z \in ZoneOffsets} \cup {NotAZone}

----------------------------------------------------------------------------
(* The conversion specification: one call of convertLocalTimeToUtc *)

UtcPending == [status |-> "pending", thrown |-> NoError, value |-> Undefined]

InitConversion ==
    /\ utcInput \in [localTime : WellFormedTimes \cup OtherTimes,
                     timezone : TimeZones,
                     hourCycle : {"h23", "h24"}]
    /\ utcOutcome = UtcPending
    /\ OthersUnused("utc")

CallConvertLocalTimeToUtc ==
    /\ utcOutcome.status = "pending"
    /\ LET r == convertLocalTimeToUtc(utcInput.localTime, utcInput.timezone, utcInput.hourCycle)
       IN utcOutcome' = [status |-> IF r.thrown = NoError THEN "returned" ELSE "threw",
                         thrown |-> r.thrown,
                         value |-> r.value]
    /\ UNCHANGED utcInput
    /\ OthersUnchanged("utc")

NextConversion == CallConvertLocalTimeToUtc

SpecConversion == InitConversion /\ [][NextConversion]_vars

----------------------------------------------------------------------------
(* Properties of convertLocalTimeToUtc, checked under SpecConversion *)

UtcDone == utcOutcome.status # "pending"

DecimalDigits == {"0", "1", "2", "3", "4", "5", "6", "7", "8", "9"}

\* the number written by two decimal digits
TwoDigits(a, b) ==
    LET v(c) == CHOOSE n \in 0..9 : Digits[n + 1] = c
    IN 10 * v(a) + v(b)

\* two digits, ':', two digits
IsClockText(s) ==
    /\ Len(s) = 5
    /\ s[3] = ":"
    /\ \A i \in {1, 2, 4, 5} : s[i] \in DecimalDigits

\* HH:MM with the hour in 0..23 and the minute in 0..59
IsLocalTime(s) ==
    /\ IsClockText(s)
    /\ TwoDigits(s[1], s[2]) <= 23
    /\ TwoDigits(s[4], s[5]) <= 59

MinuteOfDay(s) == 60 * TwoDigits(s[1], s[2]) + TwoDigits(s[4], s[5])

\* C10: for a local HH:MM and a zone whose civil offset at the reference
\* instant is a whole number o of minutes, the call returns the zero-padded
\* HH:MM of ((HH*60+MM) - o) mod 1440, hour in 00..23 and minute in 00..59,
\* wrapping over the day boundary in both directions.
C10_LocalToUtc ==
    (/\ UtcDone
     /\ IsLocalTime(utcInput.localTime)
     /\ IsResolvableZone(utcInput.timezone)
     /\ ZoneOffset(utcInput.timezone) % 60 = 0)
        => /\ utcOutcome.status = "returned"
           /\ utcOutcome.value.kind = "string"
           /\ IsLocalTime(utcOutcome.value.val)
           /\ MinuteOfDay(utcOutcome.value.val) =
                 (MinuteOfDay(utcInput.localTime) - ZoneOffset(utcInput.timezone) \div 60) % 1440

C10_Witness ==
    /\ utcOutcome.status = "returned"
    /\ utcInput.localTime = <<"0", "0", ":", "3", "0">>
    /\ utcInput.timezone = AsiaBangkok
    /\ utcOutcome.value = Str(<<"1", "7", ":", "3", "0">>)

\* C11: a call whose localTime is not two digits, ':', two digits with the
\* hour in 0..23 and the minute in 0..59 throws and returns no time.
C11_MalformedTimeFails ==
    (UtcDone /\ ~IsLocalTime(utcInput.localTime))
        => /\ utcOutcome.status = "threw"
           /\ utcOutcome.thrown # NoError
           /\ utcOutcome.value = Undefined

\* C12: a call whose timezone the runtime does not resolve throws a
\* RangeError and returns no time string, whatever the localTime.
C12_UnknownZoneFails ==
    (UtcDone /\ ~IsResolvableZone(utcInput.timezone))
        => /\ utcOutcome.status = "threw"
           /\ utcOutcome.thrown = RangeError
           /\ utcOutcome.value = Undefined

C12_Witness ==
    /\ utcOutcome.status = "threw"
    /\ utcInput.localTime = <<"1", "0", ":", "0", "0">>
    /\ utcInput.timezone = NotAZone
    /\ utcOutcome.thrown = RangeError

----------------------------------------------------------------------------
(* Own properties of JavaScript objects. The entries of Obj are kept in    *)
(* the order Object.keys / Object.entries list them: array-index keys in   *)
(* ascending numeric order first, then the other keys in insertion order.  *)

\* an array index: "0", or decimal digits without a leading zero
IsArrayIndex(key) ==
    /\ Len(key) > 0
    /\ \A i \in 1..Len(key) : IsDigit(key[i])
    /\ Len(key) > 1 => key[1] # "0"

HasOwnProperty(entries, key) == \E i \in 1..Len(entries) : entries[i][1] = key

\* CreateDataProperty: the own property key of the object becomes value;
\* a new array-index key goes to its numeric place, any other new key last
DefineProperty(entries, key, value) ==
    IF HasOwnProperty(entries, key)
    THEN [i \in 1..Len(entries) |->
            IF entries[i][1] = key THEN <<key, value>> ELSE entries[i]]
    ELSE IF IsArrayIndex(key)
    THEN LET before == Cardinality({i \in 1..Len(entries) :
                           /\ IsArrayIndex(entries[i][1])
                           /\ ParseDigits(entries[i][1], 1, 0) < ParseDigits(key, 1, 0)})
         IN SubSeq(entries, 1, before) \o << <<key, value>> >>
                \o SubSeq(entries, before + 1, Len(entries))
    ELSE Append(entries, <<key, value>>)

ProtoKey ==
    <<"_", "_", "p", "r", "o", "t", "o", "_", "_">>

\* obj[key] = value on an ordinary object: an assignment to __proto__ that
\* is not an own property goes to the accessor of Object.prototype, which
\* sets the prototype (or ignores a primitive) and creates no own property
SetProperty(entries, key, value) ==
    IF key = ProtoKey /\ ~HasOwnProperty(entries, key) THEN entries
    ELSE DefineProperty(entries, key, value)

RECURSIVE ObjectFromPairs(_, _)
\* JSON.parse of an object text whose members are pairs, in text order,
\* onto the entries so far
ObjectFromPairs(pairs, entries) ==
    IF Len(pairs) = 0 THEN entries
    ELSE ObjectFromPairs(Tail(pairs), DefineProperty(entries, pairs[1][1], pairs[1][2]))

CreationStackKey ==
    <<"c", "r", "e", "a", "t", "i", "o", "n", "S", "t", "a", "c", "k">>

\* the own enumerable properties of an object implementing cdk.IResolvable:
\* the creationStack its interface declares (no stack trace captured)
ResolvableEntries(id) == << <<CreationStackKey, Arr(<<>>)>> >>

\* Object.entries(value) / Object.keys(value) of an object
ObjectEntries(value) ==
    IF value.kind = "resolvable" THEN ResolvableEntries(value.val) ELSE value.val

----------------------------------------------------------------------------
(* quicksight-stack: normalizeDefinitionKeys, replaceStringRecursively and *)
(* applyDatasetReference                                                   *)

RECURSIVE normalizeDefinitionKeys(_)
RECURSIVE normalizeItems(_, _)
RECURSIVE normalizeEntries_SliceFromZero(_, _, _)
RECURSIVE normalizeEntries(_, _, _)

\* value.map((item) => this.normalizeDefinitionKeys(item)), from item n on
normalizeItems(items, n) ==
    IF n > Len(items) THEN <<>>
    ELSE <<normalizeDefinitionKeys(items[n])>> \o normalizeItems(items, n + 1)

\* the forEach with key.slice(0) written for key.slice(1)
normalizeEntries_SliceFromZero(entries, n, normalized) ==
    IF n > Len(entries) THEN normalized
    ELSE LET key == entries[n][1]
             normalizedKey == IF Len(key) > 0 THEN <<toLowerCase(key[1])>> \o key ELSE key
         IN normalizeEntries_SliceFromZero(entries, n + 1,
                SetProperty(normalized, normalizedKey, normalizeDefinitionKeys(entries[n][2])))

\* Object.entries(value).forEach(([key, val]) => ...), from entry n on
normalizeEntries(entries, n, normalized) ==
    IF n > Len(entries) THEN normalized
    ELSE LET key == entries[n][1]
             normalizedKey == IF Len(key) > 0
                              THEN <<toLowerCase(key[1])>> \o SubSeq(key, 2, Len(key))
                              ELSE key
         IN normalizeEntries(entries, n + 1,
                SetProperty(normalized, normalizedKey, normalizeDefinitionKeys(entries[n][2])))

\* the returned tree; the argument is only read
normalizeDefinitionKeys(value) ==
    IF value.kind = "array" THEN Arr(normalizeItems(value.val, 1))
    ELSE IF Truthy(value) /\ typeof(value) = "object"
    THEN Obj(normalizeEntries(ObjectEntries(value), 1, <<>>))
    ELSE value

RECURSIVE replaceStringRecursively_Includes(_, _, _)
RECURSIVE replaceStringRecursively(_, _, _)
RECURSIVE replaceElement(_, _, _)

\* the callbacks without the else branch that recurses into item
replaceElement_NoRecursion(item, search, replace) ==
    IF typeof(item) = "string" /\ item.val = search THEN Str(replace)
    ELSE item

\* the body of both forEach callbacks: the value the slot holds afterwards
replaceElement(item, search, replace) ==
    IF typeof(item) = "string" /\ item.val = search THEN Str(replace)
    ELSE replaceStringRecursively(item, search, replace)

\* the replacement with item.includes(search) written for item === search
replaceStringRecursively_Includes(target, search, replace) ==
    LET element(item) == IF typeof(item) = "string" /\ includes(item.val, search)
                         THEN Str(replace)
                         ELSE replaceStringRecursively(item, search, replace)
    IN IF target.kind = "array"
       THEN Arr([i \in 1..Len(target.val) |-> element(target.val[i])])
       ELSE IF target.kind = "object"
       THEN Obj([i \in 1..Len(target.val) |->
                    <<target.val[i][1], element(target.val[i][2])>>])
       ELSE target

\* the value of the target object after the call (the call mutates it in
\* place and returns nothing). A resolvable is walked like any object; its
\* creationStack holds no string equal to search, so it is left as it was.
replaceStringRecursively(target, search, replace) ==
    IF target.kind = "array"
    THEN Arr([i \in 1..Len(target.val) |-> replaceElement(target.val[i], search, replace)])
    ELSE IF target.kind = "object"
    THEN Obj([i \in 1..Len(target.val) |->
                 <<target.val[i][1], replaceElement(target.val[i][2], search, replace)>>])
    ELSE target

declarationKey ==
    <<"d", "a", "t", "a", "S", "e", "t", "I", "d", "e", "n", "t", "i", "f", "i", "e", "r", "D", "e", "c", "l", "a", "r", "a", "t", "i", "o", "n", "s">>

IdentifierKey ==
    <<"i", "d", "e", "n", "t", "i", "f", "i", "e", "r">>

DataSetArnKey ==
    <<"d", "a", "t", "a", "S", "e", "t", "A", "r", "n">>

\* the first search string of applyDatasetReference
TemplateIdentifier ==
    <<"s", "y", "n", "n", "e", "x", "-", "o", "r", "g", "-", "u", "s", "a", "g", "e">>

\* the second search string of applyDatasetReference
TemplateDatasetArn ==
    <<"a", "r", "n", ":", "a", "w", "s", ":", "q", "u", "i", "c", "k", "s", "i", "g", "h", "t", ":", "u", "s", "-", "e", "a", "s", "t", "-", "1", ":", "1", "6", "8", "0", "0", "0", "2", "5", "9", "4", "8", "4", ":", "d", "a", "t", "a", "s", "e", "t", "/", "f", "1", "3", "5", "f", "8", "e", "9", "-", "8", "f", "f", "0", "-", "4", "2", "2", "4", "-", "b", "1", "3", "0", "-", "e", "0", "0", "7", "b", "8", "8", "e", "d", "6", "5", "e">>

\* definition[key]: a TypeError on null and undefined, the own property of
\* an object, undefined for any other key of an array or a primitive
GetProperty(definition, key) ==
    IF definition.kind \in {"null", "undefined"} THEN Abrupt(TypeError)
    ELSE IF definition.kind \in {"object", "resolvable"}
            /\ HasOwnProperty(ObjectEntries(definition), key)
    THEN LET entries == ObjectEntries(definition)
         IN Normal(entries[CHOOSE i \in 1..Len(entries) : entries[i][1] = key][2])
    ELSE Normal(Undefined)

\* lines 276-282: the declarations array mapped entry by entry
applyDeclarations(definition, datasetArn, identifier) ==
    LET declarations == GetProperty(definition, declarationKey)
    IN IF declarations.thrown # NoError THEN declarations
       ELSE IF declarations.value.kind = "array"
       THEN Normal(Obj(SetProperty(definition.val, declarationKey,
                Arr([i \in 1..Len(declarations.value.val) |->
                        Obj(<< <<IdentifierKey, Str(identifier)>>,
                               <<DataSetArnKey, Str(datasetArn)>> >>)]))))
       ELSE Normal(definition)

\* the value of `definition` after the call, or the error thrown
applyDatasetReference(definition, datasetArn, identifier) ==
    LET rebound == applyDeclarations(definition, datasetArn, identifier)
    IN IF rebound.thrown # NoError THEN rebound
       ELSE Normal(replaceStringRecursively(
                       replaceStringRecursively(rebound.value, TemplateIdentifier, identifier),
                       TemplateDatasetArn, datasetArn))

----------------------------------------------------------------------------
(* Inputs of the definition helpers *)

MaxDefinitionNodes == 3     \* generated definition trees have at most this many nodes
MaxCalls == 2               \* helper calls made on one tree

SearchX == <<"X">>
ReplaceY == <<"Y">>

\* the leaf of the replacement example: it contains the search string
PrefixXSuffix ==
    <<"p", "r", "e", "f", "i", "x", "-", "X", "-", "s", "u", "f", "f", "i", "x">>

DefinitionLeaves == {Str(SearchX), Str(PrefixXSuffix), Resolvable(1)}

DefinitionKeys == {<<"A", "b">>, <<"a", "b">>, SearchX}

KeySeqsOver(keys, n) == {ks \in [1..n -> keys] : \A i, j \in 1..n : ks[i] = ks[j] => i = j}

RECURSIVE JsonTreesOfSize(_, _, _)
RECURSIVE JsonForests(_, _, _)

\* the sequences of trees with n nodes in total
JsonForests(leaves, keys, n) ==
    IF n = 0 THEN {<<>>}
    ELSE UNION {{<<t>> \o f : t \in JsonTreesOfSize(leaves, keys, k),
                              f \in JsonForests(leaves, keys, n - k)} : k \in 1..n}

\* the trees with exactly n nodes over the leaves, objects keyed by keys
JsonTreesOfSize(leaves, keys, n) ==
    IF n = 1 THEN leaves \cup {Arr(<<>>), Obj(<<>>)}
    ELSE {Arr(f) : f \in JsonForests(leaves, keys, n - 1)}
         \cup UNION {{Obj([i \in 1..Len(f) |-> <<ks[i], f[i]>>]) : ks \in KeySeqsOver(keys, Len(f))} :
                        f \in JsonForests(leaves, keys, n - 1)}

DefinitionTreesUpTo(n) ==
    UNION {JsonTreesOfSize(DefinitionLeaves, DefinitionKeys, k) : k \in 1..n}

\* the declarations key as the templates write it
TemplateDeclarationKey ==
    <<"D", "a", "t", "a", "S", "e", "t", "I", "d", "e", "n", "t", "i", "f", "i", "e", "r", "D", "e", "c", "l", "a", "r", "a", "t", "i", "o", "n", "s">>

SpecialKeys ==
    {<<>>, <<"1">>, <<"0", "1">>, ProtoKey, <<"A", "b">>, <<"a", "b">>, <<"A">>, <<"_", "A">>,
     SearchX, declarationKey, TemplateDeclarationKey}

SpecialLeaves ==
    {Null, Num(1), Bool(FALSE), Str(<<>>), Str(SearchX), Str(TemplateIdentifier),
     Str(TemplateDatasetArn), Str(TestTokenizedArn), Obj(<< <<(<<"C">>), Str(SearchX)>> >>)}

\* a stub of the declarations array of a template
DeclarationStub ==
    Obj(<< <<(<<"I", "d", "e", "n", "t", "i", "f", "i", "e", "r">>), Str(TemplateIdentifier)>>,
           <<(<<"D", "a", "t", "a", "S", "e", "t", "A", "r", "n">>), Str(TemplateDatasetArn)>> >>)

\* JSON.parse of {k: l} and of {"b": 1, k: l}, for the special keys and
\* leaves; root scalars; the declarations key holding 0..3 stubs or no array
SpecialDefinitionTrees ==
    SpecialLeaves
      \cup {Obj(ObjectFromPairs(<< <<k, l>> >>, <<>>)) : k \in SpecialKeys, l \in SpecialLeaves}
      \cup {Obj(ObjectFromPairs(<< <<(<<"b">>), Num(1)>>, <<k, l>> >>, <<>>)) :
              k \in SpecialKeys, l \in SpecialLeaves}
      \cup {Obj(<< <<k, Arr([i \in 1..n |-> DeclarationStub])>>,
                   <<(<<"n", "a", "m", "e">>), Str(TemplateIdentifier)>> >>) :
              k \in {declarationKey, TemplateDeclarationKey}, n \in 0..3}
      \cup {Arr(<<Str(TemplateDatasetArn), Arr(<<Str(SearchX), Num(1)>>)>>)}

\* this.curDataSet.attrArn: a string token
DatasetArnToken ==
    <<"$", "{", "T", "o", "k", "e", "n", "[", "T", "O", "K", "E", "N", ".", "7", "]", "}">>

\* 'cur-dataset'
DatasetIdentifier ==
    <<"c", "u", "r", "-", "d", "a", "t", "a", "s", "e", "t">>

----------------------------------------------------------------------------
(* The definition-helper specification: up to MaxCalls calls on one tree,  *)
(* as createAnalysisAndDashboard makes them: normalizeDefinitionKeys on    *)
(* the tree the last normalization returned, then one mutating helper      *)

DefStart(tree) ==
    [calls |-> <<>>, before |-> Undefined, target |-> Undefined,
     definition |-> tree, thrown |-> NoError]

InitDefinition ==
    /\ defInput \in [tree : DefinitionTreesUpTo(MaxDefinitionNodes) \cup SpecialDefinitionTrees,
                     search : {SearchX},
                     replace : {ReplaceY},
                     datasetArn : {DatasetArnToken},
                     identifier : {DatasetIdentifier}]
    /\ defOutcome = DefStart(defInput.tree)
    /\ OthersUnused("def")

\* a helper can be called: the calls so far are normalizations that returned
DefCallable ==
    /\ Len(defOutcome.calls) < MaxCalls
    /\ defOutcome.thrown = NoError
    /\ \A i \in 1..Len(defOutcome.calls) : defOutcome.calls[i] = "normalizeDefinitionKeys"

\* definition = this.normalizeDefinitionKeys(definition)
CallNormalizeDefinitionKeys ==
    /\ DefCallable
    /\ defOutcome' = [calls |-> Append(defOutcome.calls, "normalizeDefinitionKeys"),
                      before |-> defOutcome.definition,
                      target |-> defOutcome.definition,
                      definition |-> normalizeDefinitionKeys(defOutcome.definition),
                      thrown |-> NoError]
    /\ UNCHANGED defInput
    /\ OthersUnchanged("def")

\* this.replaceStringRecursively(definition, search, replace)
CallReplaceStringRecursively ==
    /\ DefCallable
    /\ LET after == replaceStringRecursively(defOutcome.definition, defInput.search,
                                             defInput.replace)
       IN defOutcome' = [calls |-> Append(defOutcome.calls, "replaceStringRecursively"),
                         before |-> defOutcome.definition,
                         target |-> after,
                         definition |-> after,
                         thrown |-> NoError]
    /\ UNCHANGED defInput
    /\ OthersUnchanged("def")

\* this.applyDatasetReference(definition, datasetArn, identifier)
CallApplyDatasetReference ==
    /\ DefCallable
    /\ LET r == applyDatasetReference(defOutcome.definition, defInput.datasetArn,
                                      defInput.identifier)
           after == IF r.thrown = NoError THEN r.value ELSE defOutcome.definition
       IN defOutcome' = [calls |-> Append(defOutcome.calls, "applyDatasetReference"),
                         before |-> defOutcome.definition,
                         target |-> after,
                         definition |-> after,
                         thrown |-> r.thrown]
    /\ UNCHANGED defInput
    /\ OthersUnchanged("def")

NextDefinition ==
    \/ CallNormalizeDefinitionKeys
    \/ CallReplaceStringRecursively
    \/ CallApplyDatasetReference

SpecDefinition == InitDefinition /\ [][NextDefinition]_vars

----------------------------------------------------------------------------
(* Properties of the definition helpers, checked under SpecDefinition *)

DefLastCall ==
    IF Len(defOutcome.calls) = 0 THEN "none" ELSE defOutcome.calls[Len(defOutcome.calls)]

\* C13: normalizing a tree that a normalization returned gives a
\* structurally equal tree.
C13_NormalizeIdempotent ==
    (/\ Len(defOutcome.calls) >= 2
     /\ DefLastCall = "normalizeDefinitionKeys"
     /\ defOutcome.calls[Len(defOutcome.calls) - 1] = "normalizeDefinitionKeys")
        => defOutcome.definition = defOutcome.before

C13_Witness ==
    /\ defOutcome.calls = <<"normalizeDefinitionKeys", "normalizeDefinitionKeys">>
    /\ defInput.tree.kind = "object"
    /\ defOutcome.before # defInput.tree
    /\ defOutcome.definition = defOutcome.before

\* a key with its first character lowercased and the remainder unchanged
LowerFirst(key) ==
    IF Len(key) = 0 THEN key ELSE <<toLowerCase(key[1])>> \o SubSeq(key, 2, Len(key))

RECURSIVE KeyCased(_)
\* the tree with every object key lowered in its first character, arrays
\* element by element in order, scalars and unresolved values as they are
KeyCased(v) ==
    IF v.kind = "array" THEN Arr([i \in 1..Len(v.val) |-> KeyCased(v.val[i])])
    ELSE IF v.kind = "object"
    THEN Obj([i \in 1..Len(v.val) |-> <<LowerFirst(v.val[i][1]), KeyCased(v.val[i][2])>>])
    ELSE v

\* no object of the tree has two keys that differ only in the case of the
\* first character, or the key __proto__
DistinctLoweredKeys(tree) ==
    \A e \in Range(PreOrder(tree, <<>>)) :
        e.node.kind = "object" =>
            \A i, j \in 1..Len(e.node.val) :
                /\ LowerFirst(e.node.val[i][1]) # ProtoKey
                /\ LowerFirst(e.node.val[i][1]) = LowerFirst(e.node.val[j][1]) => i = j

C15_ExactMatchOnly ==
    DefLastCall = "replaceStringRecursively"
        => LET b == PreOrder(defOutcome.before, <<>>)
               a == PreOrder(defOutcome.definition, <<>>)
           IN /\ Len(a) = Len(b)
              /\ \A i \in 1..Len(b) :
                    /\ a[i].path = b[i].path
                    /\ IF i > 1 /\ b[i].node.kind = "string" /\ b[i].node.val = defInput.search
                       THEN a[i].node = Str(defInput.replace)
                       ELSE IF b[i].node.kind \in {"array", "object"}
                       THEN a[i].node.kind = b[i].node.kind
                       ELSE a[i].node = b[i].node

C15_Witness ==
    /\ defOutcome.calls = <<"replaceStringRecursively">>
    /\ defOutcome.before = Arr(<<Str(PrefixXSuffix), Str(SearchX)>>)
    /\ defOutcome.definition = Arr(<<Str(PrefixXSuffix), Str(ReplaceY)>>)

\* C16: when the declarations key of the target holds an array, whatever
\* its length, applyDatasetReference leaves exactly one entry there, made of
\* the supplied identifier and reference; when it does not hold an array (and
\* no leaf is one of the two replaced literals) the target is unchanged.
C16_RebindDeclarations ==
    (DefLastCall = "applyDatasetReference" /\ defOutcome.thrown = NoError)
        => IF GetProperty(defOutcome.before, declarationKey).value.kind = "array"
           THEN GetProperty(defOutcome.definition, declarationKey).value =
                    Arr(<<Obj(<< <<IdentifierKey, Str(defInput.identifier)>>,
                                 <<DataSetArnKey, Str(defInput.datasetArn)>> >>)>>)
           ELSE StringLeaves(defOutcome.before)
                    \cap {TemplateIdentifier, TemplateDatasetArn} = {}
                        => defOutcome.definition = defOutcome.before

\* C29: after replaceStringRecursively(target, search, replace) with
\* replace different from search on an array or object target, no array
\* element and no object value at any depth is a string equal to search,
\* and the tree keeps its shape: the same keys in every object and the same
\* length of every array.
C29_NoSearchLeft ==
    (/\ DefLastCall = "replaceStringRecursively"
     /\ defInput.replace # defInput.search
     /\ defOutcome.before.kind \in {"array", "object"})
        => LET b == PreOrder(defOutcome.before, <<>>)
               a == PreOrder(defOutcome.definition, <<>>)
           IN /\ \A i \in 2..Len(a) : a[i].node # Str(defInput.search)
              /\ Len(a) = Len(b)
              /\ \A i \in 1..Len(b) :
                    /\ a[i].path = b[i].path
                    /\ (b[i].node.kind \in {"array", "object"}
                           \/ a[i].node.kind \in {"array", "object"})
                          => a[i].node.kind = b[i].node.kind

\* search sat two levels down, inside a container of the target
C29_Witness ==
    /\ DefLastCall = "replaceStringRecursively"
    /\ defInput.replace # defInput.search
    /\ \E e \in Range(PreOrder(defOutcome.before, <<>>)) :
          Len(e.path) >= 2 /\ e.node = Str(defInput.search)
    /\ \E e \in Range(PreOrder(defOutcome.definition, <<>>)) :
          Len(e.path) >= 2 /\ e.node = Str(defInput.replace)

RECURSIVE SameKeyCounts(_, _)
\* every object of the result has as many keys as the object of the input
\* at the same place
SameKeyCounts(input, result) ==
    IF input.kind = "array"
    THEN /\ result.kind = "array"
         /\ Len(result.val) = Len(input.val)
         /\ \A i \in 1..Len(input.val) : SameKeyCounts(input.val[i], result.val[i])
    ELSE IF input.kind \in {"object", "resolvable"}
    THEN /\ result.kind = "object"
         /\ Len(result.val) = Len(ObjectEntries(input))
         /\ \A i \in 1..Len(result.val) :
               SameKeyCounts(ObjectEntries(input)[i][2], result.val[i][2])
    ELSE TRUE

\* C28: normalizeDefinitionKeys never drops an entry: every object in the
\* result has exactly as many keys as the corresponding input object, also
\* when two input keys differ only in the case of their first character.
C28_NoEntryDropped ==
    DefLastCall = "normalizeDefinitionKeys"
        => SameKeyCounts(defOutcome.before, defOutcome.definition)

----------------------------------------------------------------------------
(* quicksight-stack: resolveRefreshScheduleTiming and tryResolveParameter *)

\* value.length > 0 for a value that is a string; undefined > 0 is false
NonEmptyLength(v) == v.kind = "string" /\ Len(v.val) > 0

\* tryResolveParameter without the Token.isUnresolved test on the value
tryResolveParameter_IgnoresToken(parameter) ==
    IF Truthy(parameter.resolved) /\ NonEmptyLength(parameter.resolved)
    THEN parameter.resolved
    ELSE IF NonEmptyLength(parameter.value)
    THEN parameter.value
    ELSE Undefined

tryResolveParameter(parameter) ==
    IF Truthy(parameter.resolved) /\ NonEmptyLength(parameter.resolved)
    THEN parameter.resolved
    ELSE IF ~isUnresolved(parameter.value) /\ NonEmptyLength(parameter.value)
    THEN parameter.value
    ELSE Undefined

\* the literal zone of the converted schedule
UtcLiteral == <<"U", "T", "C">>

\* the returned {timeOfTheDay, timeZone} or the error thrown, with the
\* calls made to convertLocalTimeToUtc
resolveRefreshScheduleTiming(parameters, hourCycle) ==
    LET localTime == tryResolveParameter(parameters.dailyRefreshTimeLocal)
        timezone == tryResolveParameter(parameters.timezone)
    IN IF Truthy(localTime) /\ Truthy(timezone)
       THEN Only({[thrown |-> utc.thrown,
                   value |-> IF utc.thrown # NoError THEN Undefined
                             ELSE [timeOfTheDay |-> utc.value, timeZone |-> Str(UtcLiteral)],
                   converted |-> <<[localTime |-> localTime, timezone |-> timezone,
                                    returned |-> utc.value]>>] :
                  utc \in {convertLocalTimeToUtc(localTime.val, timezone.val, hourCycle)}})
       ELSE [thrown |-> NoError,
             value |-> [timeOfTheDay |-> parameters.dailyRefreshTimeLocal.value,
                        timeZone |-> parameters.timezone.value],
             converted |-> <<>>]

----------------------------------------------------------------------------
(* Inputs of resolveRefreshScheduleTiming: this.parameters as               *)
(* createStringParameter builds them, with and without a declared default   *)

NoSources == [stack |-> Undefined, global |-> Undefined]

\* the ParameterDefinitions of parameter id over the context values
ParameterDefinitions(id, defaults, contextValues) ==
    {createStringParameter(c, id, [default |-> d], NoSources).definition :
        c \in contextValues, d \in defaults}

ScheduleTimes ==
    {Undefined, Str(<<>>), Str(<<"0", "0", ":", "3", "0">>), Str(<<"2", "3", ":", "4", "5">>),
     Str(<<"0", "7", ":", "1", "5">>), Str(<<"2", "5", ":", "0", "0">>),
     Str(<<"a", "b", ":", "c", "d">>), Num(5)}

ScheduleZones ==
    {Undefined, Str(<<>>), Str(AmericaNewYork), Str(UTC), Str(AsiaKolkata), Str(EtcGMTMinus14),
     Str(AfricaMonrovia), Str(NotAZone), Bool(TRUE)}

----------------------------------------------------------------------------
(* The schedule specification: one call of resolveRefreshScheduleTiming *)

SchPending == [status |-> "pending", thrown |-> NoError, value |-> Undefined, converted |-> <<>>]

InitSchedule ==
    /\ schInput \in [parameters :
                        [dailyRefreshTimeLocal :
                            ParameterDefinitions(DailyRefreshTimeLocal,
                                {Str(dailyRefreshDefault), Undefined}, ScheduleTimes),
                         timezone :
                            ParameterDefinitions(Timezone,
                                {Str(timezoneDefault), Undefined}, ScheduleZones)],
                     hourCycle : {"h23", "h24"}]
    /\ schOutcome = SchPending
    /\ OthersUnused("sch")

CallResolveRefreshScheduleTiming ==
    /\ schOutcome.status = "pending"
    /\ LET r == resolveRefreshScheduleTiming(schInput.parameters, schInput.hourCycle)
       IN schOutcome' = [status |-> IF r.thrown = NoError THEN "returned" ELSE "threw",
                         thrown |-> r.thrown,
                         value |-> r.value,
                         converted |-> r.converted]
    /\ UNCHANGED schInput
    /\ OthersUnchanged("sch")

NextSchedule == CallResolveRefreshScheduleTiming

SpecSchedule == InitSchedule /\ [][NextSchedule]_vars

----------------------------------------------------------------------------
(* Properties of resolveRefreshScheduleTiming, checked under SpecSchedule *)

SchDone == schOutcome.status # "pending"

\* the parameter is available as a plain string: a non-empty resolved
\* string, or a non-empty value that is not a token
PlainStringOf(parameter) ==
    IF parameter.resolved.kind = "string" /\ parameter.resolved.val # <<>>
    THEN parameter.resolved
    ELSE IF parameter.value.kind = "string" /\ parameter.value.val # <<>>
            /\ ~TokenStringTest(parameter.value.val)
    THEN parameter.value
    ELSE Undefined

BothPlain ==
    /\ PlainStringOf(schInput.parameters.dailyRefreshTimeLocal) # Undefined
    /\ PlainStringOf(schInput.parameters.timezone) # Undefined

\* C17: the converter is called exactly when both parameters are available
\* as plain strings, once and with those strings; a schedule returned then
\* holds the converter's result and the zone 'UTC'. Otherwise the converter
\* is not called and the schedule holds both parameter values untouched.
C17_ConvertOnlyPlainStrings ==
    SchDone =>
        IF BothPlain
        THEN /\ Len(schOutcome.converted) = 1
             /\ schOutcome.converted[1].localTime =
                    PlainStringOf(schInput.parameters.dailyRefreshTimeLocal)
             /\ schOutcome.converted[1].timezone = PlainStringOf(schInput.parameters.timezone)
             /\ schOutcome.status = "returned" =>
                    /\ schOutcome.value.timeOfTheDay = schOutcome.converted[1].returned
                    /\ schOutcome.value.timeOfTheDay.kind = "string"
                    /\ schOutcome.value.timeZone = Str(UtcLiteral)
        ELSE /\ schOutcome.converted = <<>>
             /\ schOutcome.status = "returned"
             /\ schOutcome.value.timeOfTheDay = schInput.parameters.dailyRefreshTimeLocal.value
             /\ schOutcome.value.timeZone = schInput.parameters.timezone.value

\* the zone is only a deferred handle: nothing is converted
C17_Witness ==
    /\ schOutcome.status = "returned"
    /\ schInput.parameters.dailyRefreshTimeLocal.resolved = Str(<<"2", "3", ":", "4", "5">>)
    /\ schInput.parameters.timezone.resolved = Undefined
    /\ schOutcome.converted = <<>>
    /\ schOutcome.value = [timeOfTheDay |-> Str(valueAsString), timeZone |-> Str(valueAsString)]

\* both are plain strings: the schedule is the converted time in UTC
C17_WitnessConverted ==
    /\ schOutcome.status = "returned"
    /\ schInput.parameters.dailyRefreshTimeLocal.resolved = Str(dailyRefreshDefault)
    /\ schInput.parameters.timezone.resolved = Str(timezoneDefault)
    /\ schOutcome.value = [timeOfTheDay |-> Str(<<"0", "3", ":", "0", "0">>),
                           timeZone |-> Str(UtcLiteral)]

----------------------------------------------------------------------------
(* The refresh schedule of QuicksightStack: this.parameters as              *)
(* createSharedParameters declares them, over the context values and the    *)
(* stack and global layers of the configuration                             *)

LayerTime == <<"0", "7", ":", "1", "5">>

\* the ParameterDefinitions createSharedParameters can return for id with
\* its declared default
SharedParameterDefinitions(id, declaredDefault, contextValues, layerValue) ==
    {createStringParameter(c, id, [default |-> Str(declaredDefault)],
                           [stack |-> st, global |-> g]).definition :
        c \in contextValues, st \in Layers(id, layerValue), g \in Layers(id, layerValue)}

\* this.parameters of QuicksightStack, the two parameters of the schedule
RefreshParameters ==
    [dailyRefreshTimeLocal :
        SharedParameterDefinitions(DailyRefreshTimeLocal, dailyRefreshDefault,
                                   ScheduleTimes \cup {Null, Bool(FALSE)}, LayerTime),
     timezone :
        SharedParameterDefinitions(Timezone, timezoneDefault,
                                   ScheduleZones \cup {Null, Num(0)}, AmericaNewYork)]

InitRefresh ==
    /\ schInput \in [parameters : RefreshParameters, hourCycle : {"h23", "h24"}]
    /\ schOutcome = SchPending
    /\ OthersUnused("sch")

SpecRefresh == InitRefresh /\ [][NextSchedule]_vars

\* C27: in QuicksightStack the pass-through fallback is reachable: for some
\* combination of context, stack-layer and global-layer values of
\* DailyRefreshTimeLocal and Timezone, resolveRefreshScheduleTiming returns
\* the untouched local time and zone handles (under the hour cycle of the
\* run).
C27_FallbackReachable ==
    \E parameters \in RefreshParameters :
        LET timing == resolveRefreshScheduleTiming(parameters, schInput.hourCycle)
        IN /\ timing.thrown = NoError
           /\ timing.converted = <<>>
           /\ timing.value = [timeOfTheDay |-> parameters.dailyRefreshTimeLocal.value,
                              timeZone |-> parameters.timezone.value]

----------------------------------------------------------------------------
(* app-main: the synthesis pass. The script constructs the AppContext and  *)
(* the five stacks inside one try block; each constructor either returns   *)
(* or throws the error synInput names for it.                              *)

ConstructionOrder ==
    <<"AppContext", "StorageStack", "GlueStack", "AthenaStack", "QuicksightStack",
      "ComputeStack">>

StepIndex(step) == CHOOSE i \in 1..Len(ConstructionOrder) : ConstructionOrder[i] = step

AppContextError(msg) == [name |-> "AppContextError", message |-> msg]

\* the error assertNoHardCodedValues throws on a definition that holds a
\* hard-coded ARN, for the message context the builder passes
ValidationErrorIn(messageContext) ==
    assertNoHardCodedValues(Obj(<< <<(<<"a">>), Str(HardArn)>> >>), messageContext).thrown

\* the error convertLocalTimeToUtc throws on the configured time and zone
ConversionErrorOf(localTime, timezone) ==
    convertLocalTimeToUtc(localTime, timezone, "h23").thrown

CurDataAsset ==
    <<"a", "s", "s", "e", "t", "s", "/", "g", "l", "u", "e", "/", "c", "u", "r", "_", "d", "a", "t", "a", ".", "j", "s", "o", "n">>
ItInfoAsset ==
    <<"a", "s", "s", "e", "t", "s", "/", "g", "l", "u", "e", "/", "i", "t", "_", "i", "n", "f", "o", ".", "j", "s", "o", "n">>
RlsAsset ==
    <<"a", "s", "s", "e", "t", "s", "/", "g", "l", "u", "e", "/", "r", "l", "s", ".", "j", "s", "o", "n">>
AnalysisTemplate ==
    <<"a", "n", "a", "l", "y", "s", "i", "s", "_", "d", "e", "f", "i", "n", "i", "t", "i", "o", "n", ".", "j", "s", "o", "n">>
DashboardTemplate ==
    <<"d", "a", "s", "h", "b", "o", "a", "r", "d", "_", "d", "e", "f", "i", "n", "i", "t", "i", "o", "n", ".", "j", "s", "o", "n">>
StateMachineContext ==
    <<"u", "p", "d", "a", "t", "e", "-", "c", "u", "r", "-", "q", "u", "i", "c", "k", "s", "i", "g", "h", "t", "-", "r", "l", "s">>

\* the errors a constructor can throw: a definition it builds is rejected,
\* the schedule time cannot be converted, or anything else goes wrong
ConstructorErrors(step) ==
    CASE step = "AppContext" ->
            {AppContextError(<<"c", "o", "n", "f", "i", "g">>)}
      [] step = "GlueStack" ->
            {ValidationErrorIn(c) : c \in {CurDataAsset, ItInfoAsset, RlsAsset}}
                \cup {Error(<<"x">>)}
      [] step = "QuicksightStack" ->
            {ValidationErrorIn(c) : c \in {AnalysisTemplate, DashboardTemplate}}
                \cup {ConversionErrorOf(<<"a", "b", ":", "c", "d">>, AsiaBangkok), TypeError,
                      Error(<<"x">>)}
      [] step = "ComputeStack" ->
            {ValidationErrorIn(StateMachineContext), TypeError, Error(<<"x">>)}
      [] OTHER -> {Error(<<"x">>)}

\* console.error('[AppContextError]:', ...) and console.error('[Error]: not-handled-error', ...)
AppContextErrorLog ==
    <<"[", "A", "p", "p", "C", "o", "n", "t", "e", "x", "t", "E", "r", "r", "o", "r", "]", ":">>
NotHandledErrorLog ==
    <<"[", "E", "r", "r", "o", "r", "]", ":", " ", "n", "o", "t", "-", "h", "a", "n", "d", "l", "e", "d", "-", "e", "r", "r", "o", "r">>

SynStart ==
    [pc |-> "AppContext", constructed |-> <<>>, thrown |-> NoError, log |-> <<>>,
     exitCode |-> Undefined, emitted |-> Undefined]

InitSynthesis ==
    /\ \/ synInput \in [failing : {"none"}, error : {NoError}, autoSynth : BOOLEAN]
       \/ \E step \in Range(ConstructionOrder) :
             synInput \in [failing : {step}, error : ConstructorErrors(step),
                           autoSynth : BOOLEAN]
    /\ synState = SynStart
    /\ OthersUnused("syn")

\* `new <step>(...)` and the addDependency calls that follow it: the
\* constructor registers the construct before its body runs, so a stack
\* whose constructor throws is part of the app all the same
Construct(step) ==
    /\ synState.pc = step
    /\ synState' =
          IF synInput.failing = step
          THEN [synState EXCEPT !.pc = "catch",
                                !.thrown = synInput.error,
                                !.constructed = IF step = "AppContext" THEN @ ELSE Append(@, step)]
          ELSE [synState EXCEPT !.pc = IF StepIndex(step) = Len(ConstructionOrder)
                                       THEN "end"
                                       ELSE ConstructionOrder[StepIndex(step) + 1],
                                !.constructed = Append(@, step)]
    /\ UNCHANGED synInput
    /\ OthersUnchanged("syn")

NewAppContext == Construct("AppContext")
NewStorageStack == Construct("StorageStack")
NewGlueStack == Construct("GlueStack")
NewAthenaStack == Construct("AthenaStack")
NewQuicksightStack == Construct("QuicksightStack")
NewComputeStack == Construct("ComputeStack")

\* catch (error) { ... }: the error is logged and the handler returns
CatchError ==
    /\ synState.pc = "catch"
    /\ synState' = [synState EXCEPT
                       !.pc = "end",
                       !.log = Append(@, IF synState.thrown.name = "AppContextError"
                                         THEN AppContextErrorLog
                                         ELSE NotHandledErrorLog),
                       !.thrown = NoError]
    /\ UNCHANGED synInput
    /\ OthersUnchanged("syn")

\* the end of the script: nothing is in flight, so the process ends with
\* exit code 0; where the toolkit runs the app (autoSynth), the App
\* synthesizes the constructs it holds before the process exits
EndOfScript ==
    /\ synState.pc = "end"
    /\ synState' = [synState EXCEPT
                       !.pc = "done",
                       !.exitCode = IF synState.thrown = NoError THEN 0 ELSE 1,
                       !.emitted = IF synInput.autoSynth /\ Len(synState.constructed) > 0
                                   THEN SubSeq(synState.constructed, 2,
                                               Len(synState.constructed))
                                   ELSE <<>>]
    /\ UNCHANGED synInput
    /\ OthersUnchanged("syn")

NextSynthesis ==
    \/ NewAppContext
    \/ NewStorageStack
    \/ NewGlueStack
    \/ NewAthenaStack
    \/ NewQuicksightStack
    \/ NewComputeStack
    \/ CatchError
    \/ EndOfScript

SpecSynthesis == InitSynthesis /\ [][NextSynthesis]_vars

----------------------------------------------------------------------------
(* Properties of the synthesis pass, checked under SpecSynthesis *)

\* a validation error of the sanitizer or a conversion error was raised
\* while a stack built its definitions
DefinitionErrorRaised ==
    /\ synInput.failing \in {"GlueStack", "QuicksightStack", "ComputeStack"}
    /\ \/ synInput.error.name = "RangeError"
       \/ synInput.error.name = "Error" /\ Len(synInput.error.message) > 1

\* C18: a validation or conversion error ends the pass as a failure: the
\* process does not end normally, no stack after the failing one is
\* constructed, and no stack is emitted.
C18_ErrorIsFatal ==
    (synState.pc = "done" /\ DefinitionErrorRaised)
        => /\ synState.exitCode # 0
           /\ \A i \in 1..Len(ConstructionOrder) :
                 i > StepIndex(synInput.failing)
                    => ConstructionOrder[i] \notin Range(synState.constructed)
           /\ synState.emitted = <<>>

----------------------------------------------------------------------------
(* The definition builders: createAnalysisAndDashboard (quicksight-stack), *)
(* prepareTableDefinition (glue-stack) and buildStateMachineDefinition     *)
(* (compute-stack). Each loads a template, rewrites it, calls the          *)
(* sanitizer and hands the tree to the resource it constructs.             *)

RECURSIVE deepClone(_)
\* JSON.parse(JSON.stringify(value)): an undefined member of an object is
\* left out, an undefined element of an array becomes null
deepClone(value) ==
    IF value.kind = "array"
    THEN Arr([i \in 1..Len(value.val) |->
                 IF value.val[i].kind = "undefined" THEN Null ELSE deepClone(value.val[i])])
    ELSE IF value.kind \in {"object", "resolvable"}
    THEN LET kept == SelectSeq(ObjectEntries(value), LAMBDA e : e[2].kind # "undefined")
         IN Obj(ObjectFromPairs([i \in 1..Len(kept) |-> <<kept[i][1], deepClone(kept[i][2])>>],
                                <<>>))
    ELSE value

\* value[segment]
GetMember(value, segment) ==
    IF value.kind = "array" /\ segment.kind = "index"
    THEN Normal(IF segment.val < Len(value.val) THEN value.val[segment.val + 1] ELSE Undefined)
    ELSE GetProperty(value, SegmentToString(segment))

\* value[segment] = member in strict mode: the value afterwards
SetMember(value, segment, member) ==
    IF value.kind \in {"object", "resolvable"}
    THEN Normal(Obj(SetProperty(ObjectEntries(value), SegmentToString(segment), member)))
    ELSE IF value.kind = "array" /\ segment.kind = "index"
    THEN Normal(Arr([k \in 1..(IF segment.val < Len(value.val) THEN Len(value.val)
                               ELSE segment.val + 1) |->
                        IF k = segment.val + 1 THEN member
                        ELSE IF k <= Len(value.val) THEN value.val[k]
                        ELSE Undefined]))
    ELSE IF value.kind = "array" THEN Normal(value)
    ELSE Abrupt(TypeError)

\* delete value[segment]: the value afterwards
DeleteMember(value, segment) ==
    IF value.kind \in {"null", "undefined"} THEN Abrupt(TypeError)
    ELSE IF value.kind \in {"object", "resolvable"}
    THEN Normal(Obj(SelectSeq(ObjectEntries(value),
                              LAMBDA e : e[1] # SegmentToString(segment))))
    ELSE Normal(value)

\* the statements the builders run on a definition
Assign(path, value) == [op |-> "assign", path |-> path, value |-> value]
Delete(path) == [op |-> "delete", path |-> path, value |-> Undefined]
\* definition.Parameters = definition.Parameters ?? value
AssignDefault(path, value) == [op |-> "default", path |-> path, value |-> value]

RECURSIVE GetPath(_, _)
\* value.a.b[0]...: the member at path, or the TypeError of reading a
\* member of undefined or null
GetPath(value, path) ==
    IF Len(path) = 0 THEN Normal(value)
    ELSE LET member == GetMember(value, path[1])
         IN IF member.thrown # NoError THEN member ELSE GetPath(member.value, Tail(path))

RECURSIVE ExecuteAt(_, _, _)
\* the statement applied to the object at path inside value: the objects
\* on the way are shared, so value is what changes
ExecuteAt(value, path, statement) ==
    IF Len(path) = 1
    THEN IF statement.op = "delete" THEN DeleteMember(value, path[1])
         ELSE LET current == GetMember(value, path[1])
              IN IF current.thrown # NoError THEN current
                 ELSE SetMember(value, path[1],
                                IF statement.op = "default"
                                THEN NullishCoalesce(current.value, statement.value)
                                ELSE statement.value)
    ELSE LET member == GetMember(value, path[1])
         IN IF member.thrown # NoError THEN member
            ELSE LET inner == ExecuteAt(member.value, Tail(path), statement)
                 IN IF inner.thrown # NoError THEN inner
                    ELSE SetMember(value, path[1], inner.value)

RECURSIVE Execute(_, _)
\* the statements in order, up to the first one that throws
Execute(definition, statements) ==
    IF Len(statements) = 0 THEN Normal(definition)
    ELSE LET first == ExecuteAt(definition, statements[1].path, statements[1])
         IN IF first.thrown # NoError THEN first ELSE Execute(first.value, Tail(statements))

\* prepareTableDefinition, lines 160-168: the deletes and the overrides
tableOverrides(definition, overrides) ==
    Execute(definition,
        <<Delete(<<KeySegment(<<"D", "a", "t", "a", "b", "a", "s", "e", "N", "a", "m", "e">>)>>),
          Delete(<<KeySegment(<<"C", "r", "e", "a", "t", "e", "T", "i", "m", "e">>)>>),
          Delete(<<KeySegment(<<"U", "p", "d", "a", "t", "e", "T", "i", "m", "e">>)>>),
          Delete(<<KeySegment(<<"L", "a", "s", "t", "A", "c", "c", "e", "s", "s", "T", "i", "m",
              "e">>)>>),
          Assign(<<KeySegment(<<"N", "a", "m", "e">>)>>, Str(overrides.name)),
          Assign(<<KeySegment(<<"S", "t", "o", "r", "a", "g", "e", "D", "e", "s", "c", "r", "i",
              "p", "t", "o", "r">>), KeySegment(<<"L", "o", "c", "a", "t", "i", "o", "n">>)>>,
                 Str(overrides.location)),
          AssignDefault(<<KeySegment(<<"P", "a", "r", "a", "m", "e", "t", "e", "r", "s">>)>>,
              Obj(<<>>)),
          Delete(<<KeySegment(<<"S", "t", "o", "r", "a", "g", "e", "D", "e", "s", "c", "r", "i",
              "p", "t", "o", "r">>), KeySegment(<<"S", "o", "r", "t", "C", "o", "l", "u", "m", "n",
              "s">>)>>)>>)

RECURSIVE replaceAll(_, _, _)
\* String.prototype.replace with a global pattern that matches search literally
replaceAll(s, search, replacement) ==
    IF Len(s) < Len(search) THEN s
    ELSE IF SubSeq(s, 1, Len(search)) = search
    THEN replacement \o replaceAll(SubSeq(s, Len(search) + 1, Len(s)), search, replacement)
    ELSE <<s[1]>> \o replaceAll(Tail(s), search, replacement)

QuotedCurQuicksight ==
    <<"\"", "c", "u", "r", "-", "q", "u", "i", "c", "k", "s", "i", "g", "h", "t", "\"">>

\* query.replace(/"cur-quicksight"/g, `"${this.parameters.glueDatabaseName.value}"`):
\* a TypeError when query has no replace method
renderSql(query, glueDatabaseName) ==
    IF query.kind # "string" THEN Abrupt(TypeError)
    ELSE Normal(Str(replaceAll(query.val, QuotedCurQuicksight,
                               <<"\"">> \o glueDatabaseName \o <<"\"">>)))

QueryStringPath ==
    <<KeySegment(<<"S", "t", "a", "t", "e", "s">>), KeySegment(<<"Q", "u", "e", "r", "y", " ", "N",
        "e", "w", " ", "P", "a", "r", "t", "n", "e", "r", " ", "L", "i", "s", "t">>),
        KeySegment(<<"A", "r", "g", "u", "m", "e", "n", "t", "s">>), KeySegment(<<"Q", "u", "e",
        "r", "y", "S", "t", "r", "i", "n", "g">>)>>

\* buildStateMachineDefinition, lines 286-313: the fields written into the
\* template; values holds what the stack and its collaborators supply
stateMachineFields(definition, values) ==
    LET query == GetPath(definition, QueryStringPath)
        rendered == renderSql(query.value, values.glueDatabaseName)
    IN IF query.thrown # NoError THEN query
       ELSE IF rendered.thrown # NoError THEN rendered
       ELSE Execute(definition,
              <<Assign(QueryStringPath, rendered.value),
                Assign(<<KeySegment(<<"S", "t", "a", "t", "e", "s">>), KeySegment(<<"Q", "u", "e",
                    "r", "y", " ", "N", "e", "w", " ", "P", "a", "r", "t", "n", "e", "r", " ", "L",
                    "i", "s", "t">>), KeySegment(<<"A", "r", "g", "u", "m", "e", "n", "t", "s">>),
                    KeySegment(<<"W", "o", "r", "k", "G", "r", "o", "u", "p">>)>>,
                       Str(values.rlsWorkGroupName)),
                Assign(<<KeySegment(<<"S", "t", "a", "t", "e", "s">>), KeySegment(<<"P", "a", "r",
                    "a", "l", "l", "e", "l">>), KeySegment(<<"B", "r", "a", "n", "c", "h", "e",
                    "s">>), IndexSegment(0), KeySegment(<<"S", "t", "a", "t", "e", "s">>),
                    KeySegment(<<"G", "e", "t", " ", "N", "o", "n", "-", "e", "x", "i", "s", "t",
                    " ", "Q", "u", "i", "c", "k", "s", "i", "g", "h", "t", " ", "G", "r", "o", "u",
                    "p">>), KeySegment(<<"B", "r", "a", "n", "c", "h", "e", "s">>),
                    IndexSegment(0), KeySegment(<<"S", "t", "a", "t", "e", "s">>),
                    KeySegment(<<"L", "i", "s", "t", "G", "r", "o", "u", "p", "s">>),
                    KeySegment(<<"A", "r", "g", "u", "m", "e", "n", "t", "s">>), KeySegment(<<"A",
                    "w", "s", "A", "c", "c", "o", "u", "n", "t", "I", "d">>)>>,
                       Str(values.accountId)),
                Assign(<<KeySegment(<<"S", "t", "a", "t", "e", "s">>), KeySegment(<<"P", "a", "r",
                    "a", "l", "l", "e", "l">>), KeySegment(<<"B", "r", "a", "n", "c", "h", "e",
                    "s">>), IndexSegment(0), KeySegment(<<"S", "t", "a", "t", "e", "s">>),
                    KeySegment(<<"G", "e", "t", " ", "N", "o", "n", "-", "e", "x", "i", "s", "t",
                    " ", "Q", "u", "i", "c", "k", "s", "i", "g", "h", "t", " ", "G", "r", "o", "u",
                    "p">>), KeySegment(<<"B", "r", "a", "n", "c", "h", "e", "s">>),
                    IndexSegment(0), KeySegment(<<"S", "t", "a", "t", "e", "s">>),
                    KeySegment(<<"L", "i", "s", "t", "G", "r", "o", "u", "p", "s">>),
                    KeySegment(<<"A", "r", "g", "u", "m", "e", "n", "t", "s">>), KeySegment(<<"N",
                    "a", "m", "e", "s", "p", "a", "c", "e">>)>>,
                       Str(values.quicksightNamespace)),
                Assign(<<KeySegment(<<"S", "t", "a", "t", "e", "s">>), KeySegment(<<"P", "a", "r",
                    "a", "l", "l", "e", "l">>), KeySegment(<<"B", "r", "a", "n", "c", "h", "e",
                    "s">>), IndexSegment(0), KeySegment(<<"S", "t", "a", "t", "e", "s">>),
                    KeySegment(<<"M", "a", "p">>), KeySegment(<<"I", "t", "e", "m", "P", "r", "o",
                    "c", "e", "s", "s", "o", "r">>), KeySegment(<<"S", "t", "a", "t", "e", "s">>),
                    KeySegment(<<"C", "r", "e", "a", "t", "e", " ", "G", "r", "o", "u", "p">>),
                    KeySegment(<<"A", "r", "g", "u", "m", "e", "n", "t", "s">>), KeySegment(<<"A",
                    "w", "s", "A", "c", "c", "o", "u", "n", "t", "I", "d">>)>>,
                       Str(values.accountId)),
                Assign(<<KeySegment(<<"S", "t", "a", "t", "e", "s">>), KeySegment(<<"P", "a", "r",
                    "a", "l", "l", "e", "l">>), KeySegment(<<"B", "r", "a", "n", "c", "h", "e",
                    "s">>), IndexSegment(0), KeySegment(<<"S", "t", "a", "t", "e", "s">>),
                    KeySegment(<<"M", "a", "p">>), KeySegment(<<"I", "t", "e", "m", "P", "r", "o",
                    "c", "e", "s", "s", "o", "r">>), KeySegment(<<"S", "t", "a", "t", "e", "s">>),
                    KeySegment(<<"C", "r", "e", "a", "t", "e", " ", "G", "r", "o", "u", "p">>),
                    KeySegment(<<"A", "r", "g", "u", "m", "e", "n", "t", "s">>), KeySegment(<<"N",
                    "a", "m", "e", "s", "p", "a", "c", "e">>)>>,
                       Str(values.quicksightNamespace)),
                Assign(<<KeySegment(<<"S", "t", "a", "t", "e", "s">>), KeySegment(<<"P", "a", "r",
                    "a", "l", "l", "e", "l">>), KeySegment(<<"B", "r", "a", "n", "c", "h", "e",
                    "s">>), IndexSegment(1), KeySegment(<<"S", "t", "a", "t", "e", "s">>),
                    KeySegment(<<"C", "o", "p", "y", " ", "P", "a", "r", "t", "n", "e", "r", " ",
                    "L", "i", "s", "t">>), KeySegment(<<"A", "r", "g", "u", "m", "e", "n", "t",
                    "s">>), KeySegment(<<"B", "u", "c", "k", "e", "t">>)>>,
                       Str(values.partnerListBucketName)),
                Assign(<<KeySegment(<<"S", "t", "a", "t", "e", "s">>), KeySegment(<<"P", "a", "r",
                    "a", "l", "l", "e", "l">>), KeySegment(<<"B", "r", "a", "n", "c", "h", "e",
                    "s">>), IndexSegment(1), KeySegment(<<"S", "t", "a", "t", "e", "s">>),
                    KeySegment(<<"C", "o", "p", "y", " ", "P", "a", "r", "t", "n", "e", "r", " ",
                    "L", "i", "s", "t">>), KeySegment(<<"A", "r", "g", "u", "m", "e", "n", "t",
                    "s">>), KeySegment(<<"C", "o", "p", "y", "S", "o", "u", "r", "c", "e">>)>>,
                       Str(values.copySource)),
                Assign(<<KeySegment(<<"S", "t", "a", "t", "e", "s">>), KeySegment(<<"P", "a", "r",
                    "a", "l", "l", "e", "l">>), KeySegment(<<"B", "r", "a", "n", "c", "h", "e",
                    "s">>), IndexSegment(1), KeySegment(<<"S", "t", "a", "t", "e", "s">>),
                    KeySegment(<<"C", "o", "p", "y", " ", "P", "a", "r", "t", "n", "e", "r", " ",
                    "L", "i", "s", "t">>), KeySegment(<<"A", "r", "g", "u", "m", "e", "n", "t",
                    "s">>), KeySegment(<<"K", "e", "y">>)>>,
                       Str(<<"R", "L", "S", "/", "d", "a", "t", "a", "s", "e", "t", "-", "r", "u",
                           "l", "e", "s", ".", "c", "s", "v">>)),
                Assign(<<KeySegment(<<"S", "t", "a", "t", "e", "s">>), KeySegment(<<"P", "a", "r",
                    "a", "l", "l", "e", "l">>), KeySegment(<<"B", "r", "a", "n", "c", "h", "e",
                    "s">>), IndexSegment(1), KeySegment(<<"S", "t", "a", "t", "e", "s">>),
                    KeySegment(<<"C", "r", "e", "a", "t", "e", " ", "I", "n", "g", "e", "s", "t",
                    "i", "o", "n">>), KeySegment(<<"A", "r", "g", "u", "m", "e", "n", "t", "s">>),
                    KeySegment(<<"A", "w", "s", "A", "c", "c", "o", "u", "n", "t", "I", "d">>)>>,
                       Str(values.accountId)),
                Assign(<<KeySegment(<<"S", "t", "a", "t", "e", "s">>), KeySegment(<<"P", "a", "r",
                    "a", "l", "l", "e", "l">>), KeySegment(<<"B", "r", "a", "n", "c", "h", "e",
                    "s">>), IndexSegment(1), KeySegment(<<"S", "t", "a", "t", "e", "s">>),
                    KeySegment(<<"C", "r", "e", "a", "t", "e", " ", "I", "n", "g", "e", "s", "t",
                    "i", "o", "n">>), KeySegment(<<"A", "r", "g", "u", "m", "e", "n", "t", "s">>),
                    KeySegment(<<"D", "a", "t", "a", "S", "e", "t", "I", "d">>)>>,
                       Str(values.curDataSetId))>>)

----------------------------------------------------------------------------
(* Inputs of the builders: what loadJsonTemplate returns for the assets,   *)
(* and the values the stacks supply                                        *)

\* assets/glue/*.json
TableTemplate(name, databaseName, location, comment) ==
    Obj(<<<<<<"N", "a", "m", "e">>, Str(name)>>, <<<<"D", "a", "t", "a", "b", "a", "s", "e", "N",
        "a", "m", "e">>, Str(databaseName)>>, <<<<"C", "r", "e", "a", "t", "e", "T", "i", "m",
        "e">>, Num(1700000000)>>, <<<<"S", "t", "o", "r", "a", "g", "e", "D", "e", "s", "c", "r",
        "i", "p", "t", "o", "r">>, Obj(<<<<<<"C", "o", "l", "u", "m", "n", "s">>,
        Arr(<<Obj(<<<<<<"N", "a", "m", "e">>, Str(<<"u", "s", "a", "g", "e">>)>>, <<<<"C", "o",
        "m", "m", "e", "n", "t">>, Str(comment)>>>>)>>)>>, <<<<"L", "o", "c", "a", "t", "i", "o",
        "n">>, Str(location)>>, <<<<"S", "o", "r", "t", "C", "o", "l", "u", "m", "n", "s">>,
        Arr(<<>>)>>>>)>>>>)

\* assets/quicksight/analysis_definition.json and dashboard_definition.json
AnalysisDefinitionTemplate(name) ==
    Obj(<<<<<<"D", "a", "t", "a", "S", "e", "t", "I", "d", "e", "n", "t", "i", "f", "i", "e",
        "r", "D", "e", "c", "l", "a", "r", "a", "t", "i", "o", "n", "s">>, Arr(<<Obj(<<<<<<"I",
        "d", "e", "n", "t", "i", "f", "i", "e", "r">>, Str(TemplateIdentifier)>>, <<<<"D", "a",
        "t", "a", "S", "e", "t", "A", "r", "n">>, Str(TemplateDatasetArn)>>>>)>>)>>, <<<<"S",
        "h", "e", "e", "t", "s">>, Arr(<<Obj(<<<<<<"N", "a", "m", "e">>, Str(name)>>, <<<<"D",
        "a", "t", "a", "S", "e", "t", "I", "d", "e", "n", "t", "i", "f", "i", "e", "r">>,
        Str(TemplateIdentifier)>>>>)>>)>>>>)

\* assets/step_functions/update-cur-quicksight-rls.json
StateMachineTemplate(comment, queryString, accountId) ==
    Obj(<<<<<<"C", "o", "m", "m", "e", "n", "t">>, Str(comment)>>, <<<<"S", "t", "a", "t", "e",
        "s">>, Obj(<<<<<<"Q", "u", "e", "r", "y", " ", "N", "e", "w", " ", "P", "a", "r", "t",
        "n", "e", "r", " ", "L", "i", "s", "t">>, Obj(<<<<<<"A", "r", "g", "u", "m", "e", "n",
        "t", "s">>, Obj(<<<<<<"Q", "u", "e", "r", "y", "S", "t", "r", "i", "n", "g">>,
        queryString>>, <<<<"W", "o", "r", "k", "G", "r", "o", "u", "p">>, Str(<<"p", "r", "i",
        "m", "a", "r", "y">>)>>>>)>>>>)>>, <<<<"P", "a", "r", "a", "l", "l", "e", "l">>,
        Obj(<<<<<<"B", "r", "a", "n", "c", "h", "e", "s">>, Arr(<<Obj(<<<<<<"S", "t", "a", "t",
        "e", "s">>, Obj(<<<<<<"G", "e", "t", " ", "N", "o", "n", "-", "e", "x", "i", "s", "t",
        " ", "Q", "u", "i", "c", "k", "s", "i", "g", "h", "t", " ", "G", "r", "o", "u", "p">>,
        Obj(<<<<<<"B", "r", "a", "n", "c", "h", "e", "s">>, Arr(<<Obj(<<<<<<"S", "t", "a", "t",
        "e", "s">>, Obj(<<<<<<"L", "i", "s", "t", "G", "r", "o", "u", "p", "s">>, Obj(<<<<<<"A",
        "r", "g", "u", "m", "e", "n", "t", "s">>, Obj(<<<<<<"A", "w", "s", "A", "c", "c", "o",
        "u", "n", "t", "I", "d">>, Str(accountId)>>, <<<<"N", "a", "m", "e", "s", "p", "a", "c",
        "e">>, Str(<<"d", "e", "f", "a", "u", "l", "t">>)>>>>)>>>>)>>>>)>>>>)>>)>>>>)>>, <<<<"M",
        "a", "p">>, Obj(<<<<<<"I", "t", "e", "m", "P", "r", "o", "c", "e", "s", "s", "o", "r">>,
        Obj(<<<<<<"S", "t", "a", "t", "e", "s">>, Obj(<<<<<<"C", "r", "e", "a", "t", "e", " ",
        "G", "r", "o", "u", "p">>, Obj(<<<<<<"A", "r", "g", "u", "m", "e", "n", "t", "s">>,
        Obj(<<<<<<"A", "w", "s", "A", "c", "c", "o", "u", "n", "t", "I", "d">>, Str(accountId)>>,
        <<<<"N", "a", "m", "e", "s", "p", "a", "c", "e">>, Str(<<"d", "e", "f", "a", "u", "l",
        "t">>)>>>>)>>>>)>>>>)>>>>)>>>>)>>>>)>>>>), Obj(<<<<<<"S", "t", "a", "t", "e", "s">>,
        Obj(<<<<<<"C", "o", "p", "y", " ", "P", "a", "r", "t", "n", "e", "r", " ", "L", "i", "s",
        "t">>, Obj(<<<<<<"A", "r", "g", "u", "m", "e", "n", "t", "s">>, Obj(<<<<<<"B", "u", "c",
        "k", "e", "t">>, Str(<<"p", "a", "r", "t", "n", "e", "r", "-", "l", "i", "s", "t">>)>>,
        <<<<"C", "o", "p", "y", "S", "o", "u", "r", "c", "e">>, Str(<<"p", "a", "r", "t", "n",
        "e", "r", "-", "l", "i", "s", "t", "/", "x", ".", "c", "s", "v">>)>>, <<<<"K", "e",
        "y">>, Str(<<"x", ".", "c", "s", "v">>)>>>>)>>>>)>>, <<<<"C", "r", "e", "a", "t", "e",
        " ", "I", "n", "g", "e", "s", "t", "i", "o", "n">>, Obj(<<<<<<"A", "r", "g", "u", "m",
        "e", "n", "t", "s">>, Obj(<<<<<<"A", "w", "s", "A", "c", "c", "o", "u", "n", "t", "I",
        "d">>, Str(accountId)>>, <<<<"D", "a", "t", "a", "S", "e", "t", "I", "d">>, Str(<<"c",
        "u", "r">>)>>>>)>>>>)>>>>)>>>>)>>)>>>>)>>>>)>>>>)

PlainName ==
    <<"u", "s", "a", "g", "e">>

TemplateAccountId ==
    <<"1", "1", "1", "1", "2", "2", "2", "2", "3", "3", "3", "3">>

TemplateQuery ==
    <<"S", "E", "L", "E", "C", "T", " ", "*", " ", "F", "R", "O", "M", " ", "\"", "c", "u", "r", "-", "q", "u", "i", "c", "k", "s", "i", "g", "h", "t", "\"", ".", "i", "t", "_", "i", "n", "f", "o">>

TableTemplates ==
    {TableTemplate(n, d, l, c) : n \in {PlainName, HardArn}, d \in {PlainName, HardArn},
                                 l \in {PlainName, HardS3}, c \in {PlainName, HardArn, HardS3}}
        \cup {Obj(<< <<(<<"N", "a", "m", "e">>), Str(PlainName)>> >>), Null}

AnalysisTemplates ==
    {AnalysisDefinitionTemplate(n) :
        n \in {PlainName, HardArn, HardS3, TemplateDatasetArn, TemplateIdentifier}}
        \cup {Obj(<< <<(<<"N", "a", "m", "e">>), Str(n)>> >>) : n \in {PlainName, TemplateDatasetArn}}
        \cup {Null}

StateMachineTemplates ==
    {StateMachineTemplate(c, q, a) :
        c \in {PlainName, HardArn},
        q \in {Str(TemplateQuery), Str(TemplateQuery \o HardArn), Num(1)},
        a \in {TemplateAccountId, HardArn}}
        \cup {Obj(<< <<(<<"C", "o", "m", "m", "e", "n", "t">>), Str(PlainName)>> >>)}

\* cdk.Aws.ACCOUNT_ID: a string token
AccountIdToken ==
    <<"$", "{", "T", "o", "k", "e", "n", "[", "A", "W", "S", ".", "A", "c", "c", "o", "u", "n", "t", "I", "d", ".", "4", "]", "}">>

\* the value of cdk.Fn.join(...): a string token
FnJoinToken ==
    <<"$", "{", "T", "o", "k", "e", "n", "[", "T", "O", "K", "E", "N", ".", "9", "2", "]", "}">>

ItInfoName ==
    <<"i", "t", "_", "i", "n", "f", "o">>

RlsName ==
    <<"r", "l", "s">>

RlsWorkGroupName ==
    <<"c", "u", "r", "-", "r", "l", "s">>

CurDataSetId ==
    <<"c", "u", "r", "-", "q", "u", "i", "c", "k", "s", "i", "g", "h", "t", "-", "c", "u", "r", "-", "d", "a", "t", "a", "s", "e", "t">>

\* createTables: the overrides of the three tables
TableOverrides(assetPath) ==
    [name |-> IF assetPath = CurDataAsset THEN valueAsString
              ELSE IF assetPath = ItInfoAsset THEN ItInfoName
              ELSE RlsName,
     location |-> FnJoinToken]

StateMachineValues ==
    [glueDatabaseName |-> valueAsString, rlsWorkGroupName |-> RlsWorkGroupName,
     accountId |-> AccountIdToken, quicksightNamespace |-> valueAsString,
     partnerListBucketName |-> valueAsString, copySource |-> FnJoinToken,
     curDataSetId |-> CurDataSetId]

----------------------------------------------------------------------------
(* The builders as statement sequences, one action per statement *)

\* the statements of a builder up to the construction of the resource
BuilderStatements_SanitizerFirst(builder) ==
    IF builder \in {"analysis", "dashboard"}
    THEN <<"load", "normalize", "sanitize", "rebind", "handoff">>
    ELSE IF builder = "table" THEN <<"load", "sanitize", "overrides", "handoff">>
    ELSE <<"load", "sanitize", "fields", "handoff">>

BuilderStatements(builder) ==
    IF builder \in {"analysis", "dashboard"}
    THEN <<"load", "normalize", "rebind", "sanitize", "handoff">>
    ELSE IF builder = "table" THEN <<"load", "overrides", "sanitize", "handoff">>
    ELSE <<"load", "fields", "sanitize", "handoff">>

BldStart ==
    [pc |-> 1, definition |-> Undefined, thrown |-> NoError, lastMutation |-> 0,
     sanitizedAt |-> 0, checked |-> Undefined, handedAt |-> 0, handed |-> Undefined]

InitBuild ==
    /\ \/ bldInput \in [builder : {"analysis"}, context : {AnalysisTemplate},
                        template : AnalysisTemplates]
       \/ bldInput \in [builder : {"dashboard"}, context : {DashboardTemplate},
                        template : AnalysisTemplates]
       \/ bldInput \in [builder : {"table"}, context : {CurDataAsset, ItInfoAsset, RlsAsset},
                        template : TableTemplates]
       \/ bldInput \in [builder : {"stateMachine"}, context : {StateMachineContext},
                        template : StateMachineTemplates]
    /\ bldState = BldStart
    /\ OthersUnused("bld")

\* the statement the builder is at
BldAt(statement) ==
    /\ bldState.thrown = NoError
    /\ bldState.pc <= Len(BuilderStatements(bldInput.builder))
    /\ BuilderStatements(bldInput.builder)[bldState.pc] = statement

\* the state after a statement that rewrites the definition
BldRewritten(completion) ==
    IF completion.thrown # NoError
    THEN [bldState EXCEPT !.thrown = completion.thrown]
    ELSE [bldState EXCEPT !.pc = @ + 1, !.definition = completion.value,
                          !.lastMutation = bldState.pc]

\* deepClone(loadJsonTemplate(asset))
BuildLoad ==
    /\ BldAt("load")
    /\ bldState' = BldRewritten(Normal(deepClone(bldInput.template)))
    /\ UNCHANGED bldInput
    /\ OthersUnchanged("bld")

\* this.normalizeDefinitionKeys(...)
BuildNormalize ==
    /\ BldAt("normalize")
    /\ bldState' = BldRewritten(Normal(normalizeDefinitionKeys(bldState.definition)))
    /\ UNCHANGED bldInput
    /\ OthersUnchanged("bld")

\* this.applyDatasetReference(definition, datasetArn, datasetIdentifier)
BuildRebind ==
    /\ BldAt("rebind")
    /\ bldState' = BldRewritten(applyDatasetReference(bldState.definition, DatasetArnToken,
                                                      DatasetIdentifier))
    /\ UNCHANGED bldInput
    /\ OthersUnchanged("bld")

\* prepareTableDefinition, lines 160-168
BuildTableOverrides ==
    /\ BldAt("overrides")
    /\ bldState' = BldRewritten(tableOverrides(bldState.definition,
                                               TableOverrides(bldInput.context)))
    /\ UNCHANGED bldInput
    /\ OthersUnchanged("bld")

\* buildStateMachineDefinition, lines 286-313
BuildStateMachineFields ==
    /\ BldAt("fields")
    /\ bldState' = BldRewritten(stateMachineFields(bldState.definition, StateMachineValues))
    /\ UNCHANGED bldInput
    /\ OthersUnchanged("bld")

\* assertNoHardCodedValues(definition, context)
BuildSanitize ==
    /\ BldAt("sanitize")
    /\ LET outcome == assertNoHardCodedValues(bldState.definition, bldInput.context)
       IN bldState' =
             IF outcome.thrown # NoError
             THEN [bldState EXCEPT !.thrown = outcome.thrown]
             ELSE [bldState EXCEPT !.pc = @ + 1, !.sanitizedAt = bldState.pc,
                                   !.checked = bldState.definition]
    /\ UNCHANGED bldInput
    /\ OthersUnchanged("bld")

\* new CfnAnalysis / CfnDashboard / CfnTable / CfnStateMachine with the definition
BuildHandOff ==
    /\ BldAt("handoff")
    /\ bldState' = [bldState EXCEPT !.pc = @ + 1, !.handedAt = bldState.pc,
                                    !.handed = bldState.definition]
    /\ UNCHANGED bldInput
    /\ OthersUnchanged("bld")

NextBuild ==
    \/ BuildLoad
    \/ BuildNormalize
    \/ BuildRebind
    \/ BuildTableOverrides
    \/ BuildStateMachineFields
    \/ BuildSanitize
    \/ BuildHandOff

SpecBuild == InitBuild /\ [][NextBuild]_vars

----------------------------------------------------------------------------
(* Properties of the builders, checked under SpecBuild *)

BldHandedOff == bldState.handedAt > 0

\* C19: a definition handed to a provisioning resource passed
\* assertNoHardCodedValues after the last statement that rewrote it
\* (normalization, rebinding, replacement, overrides), and is the very tree
\* the sanitizer accepted: nothing changed it between the sanitizer call
\* and the hand-off.
C19_SanitizedAfterLastMutation ==
    BldHandedOff
        => /\ bldState.sanitizedAt > bldState.lastMutation
           /\ bldState.handedAt > bldState.sanitizedAt
           /\ bldState.handed = bldState.checked
           /\ assertNoHardCodedValues(bldState.handed, bldInput.context).thrown = NoError

\* a hand-off of a definition whose template the sanitizer rejects: the
\* rewriting removed the hard-coded values before the sanitizer ran
C19_Witness ==
    /\ BldHandedOff
    /\ assertNoHardCodedValues(bldInput.template, bldInput.context).thrown # NoError
    /\ bldState.handed # bldInput.template

----------------------------------------------------------------------------
(* visitJson on its own: the traversal of a value with a visitor that      *)
(* returns for every node                                                  *)

MaxVisitNodes == 3          \* visited values are written with at most this many nodes

\* a list token: the string a tokenized list holds as its only element
ListToken ==
    <<"#", "{", "T", "o", "k", "e", "n", "[", "T", "O", "K", "E", "N", ".", "3", "]", "}">>

VisitLeaves == {Num(1), Str(<<"a">>), Str(valueAsString), Str(ListToken), Resolvable(1)}

VisitKeys == {<<"a">>, <<"b">>, <<"1">>}

\* values as they are written, in JSON text or in an object literal: the
\* members of an object in the order written
VisitSources(n) == UNION {JsonTreesOfSize(VisitLeaves, VisitKeys, k) : k \in 1..n}

RECURSIVE Evaluate(_)
\* the value a written value evaluates to: the members of an object are
\* defined one after the other, in the order written
Evaluate(source) ==
    IF source.kind = "array"
    THEN Arr([i \in 1..Len(source.val) |-> Evaluate(source.val[i])])
    ELSE IF source.kind = "object"
    THEN Obj(ObjectFromPairs([i \in 1..Len(source.val) |->
                                 <<source.val[i][1], Evaluate(source.val[i][2])>>], <<>>))
    ELSE source

VisPending == [visited |-> <<>>, thrown |-> NoError, returned |-> FALSE]

InitVisit ==
    /\ visInput \in [source : VisitSources(MaxVisitNodes),
                     visitor : {ReturningClosure, SanitizerClosure(TestContext)}]
    /\ visOutcome = VisPending
    /\ OthersUnused("vis")

\* visitJson(value, visitor)
CallVisitJson ==
    /\ ~visOutcome.returned
    /\ visOutcome.thrown = NoError
    /\ LET st == visitJson(Evaluate(visInput.source), visInput.visitor, <<>>, VisitStart)
       IN visOutcome' = [visited |-> st.visited, thrown |-> st.thrown,
                         returned |-> st.thrown = NoError]
    /\ UNCHANGED visInput
    /\ OthersUnchanged("vis")

NextVisit == CallVisitJson

SpecVisit == InitVisit /\ [][NextVisit]_vars

----------------------------------------------------------------------------
(* Properties of visitJson, checked under SpecVisit *)

RECURSIVE InsertionPreOrder(_, _)
RECURSIVE InsertionPreOrderOf(_, _, _)

\* the children of a written array or object from child i on, each with
\* the nodes below it
InsertionPreOrderOf(source, i, path) ==
    IF i > Len(source.val) THEN <<>>
    ELSE (IF source.kind = "array"
          THEN InsertionPreOrder(source.val[i], Append(path, IndexSegment(i - 1)))
          ELSE InsertionPreOrder(source.val[i][2],
                                 Append(path, KeySegment(source.val[i][1]))))
            \o InsertionPreOrderOf(source, i + 1, path)

\* the nodes in pre-order, the elements of an array by index and the
\* values of an object in the order its keys were inserted; an unresolved
\* value is a leaf
InsertionPreOrder(source, path) ==
    <<[node |-> Evaluate(source), path |-> path]>> \o
        (IF source.kind \in {"array", "object"} /\ ~isUnresolved(Evaluate(source))
         THEN InsertionPreOrderOf(source, 1, path)
         ELSE <<>>)

\* C20: visitJson calls the visitor exactly once per node in pre-order: the
\* root with the empty path, array elements in index order, object values
\* in key insertion order; an unresolved value is visited as a leaf and
\* nothing inside it is visited.
C20_PreOrderInsertionOrder ==
    visOutcome.returned => visOutcome.visited = InsertionPreOrder(visInput.source, <<>>)

----------------------------------------------------------------------------
(* The S3 event handler of the compute stack: module state, the ARN of the *)
(* state machine and one StartExecution per monitored record               *)

MaxRecords == 2         \* an event holds at most this many records
MaxInvocations == 2     \* invocations served by one execution environment

URIError == [name |-> "URIError", message |-> <<>>]

\* String.prototype.startsWith
startsWith(s, prefix) ==
    Len(s) >= Len(prefix) /\ SubSeq(s, 1, Len(prefix)) = prefix

\* the characters of codes 0x20 to 0x7E, in code order (the grave accent,
\* which no string literal here can hold, is written as its escape)
PrintableAscii ==
    <<" ", "!", "\"", "#", "$", "%", "&", "'", "(", ")", "*", "+", ",", "-", ".", "/",
      "0", "1", "2", "3", "4", "5", "6", "7", "8", "9", ":", ";", "<", "=", ">", "?",
      "@", "A", "B", "C", "D", "E", "F", "G", "H", "I", "J", "K", "L", "M", "N", "O",
      "P", "Q", "R", "S", "T", "U", "V", "W", "X", "Y", "Z", "[", "\\", "]", "^", "_",
      "%60", "a", "b", "c", "d", "e", "f", "g", "h", "i", "j", "k", "l", "m", "n", "o",
      "p", "q", "r", "s", "t", "u", "v", "w", "x", "y", "z", "{", "|", "}", "~">>

HexDigits ==
    <<"0", "1", "2", "3", "4", "5", "6", "7", "8", "9", "A", "B", "C", "D", "E", "F">>

IsHexDigit(c) == \E i \in 1..16 : HexDigits[i] = c \/ toLowerCase(HexDigits[i]) = c

HexValue(c) == (CHOOSE i \in 1..16 : HexDigits[i] = c \/ toLowerCase(HexDigits[i]) = c) - 1

RECURSIVE Decode(_, _, _)
\* the Decode operation of decodeURIComponent from position k on: '%' and
\* two hexadecimal digits stand for the octet they write. An octet below
\* 0x80 is the character of that code (a control character is kept as its
\* escape); an octet from 0x80 on is taken here without the continuation
\* octets of a UTF-8 sequence, which is a URIError
Decode(s, k, decoded) ==
    IF k > Len(s) THEN Normal(Str(decoded))
    ELSE IF s[k] # "%" THEN Decode(s, k + 1, Append(decoded, s[k]))
    ELSE IF k + 2 > Len(s) \/ ~IsHexDigit(s[k + 1]) \/ ~IsHexDigit(s[k + 2])
    THEN Abrupt(URIError)
    ELSE LET octet == 16 * HexValue(s[k + 1]) + HexValue(s[k + 2])
         IN IF octet >= 128 THEN Abrupt(URIError)
            ELSE IF octet >= 32 /\ octet <= 126
            THEN Decode(s, k + 3, Append(decoded, PrintableAscii[octet - 31]))
            ELSE Decode(s, k + 3, decoded \o SubSeq(s, k, k + 2))

decodeURIComponent(s) == Decode(s, 1, <<>>)

\* 'IT info/'
MonitoredPrefix ==
    <<"I", "T", " ", "i", "n", "f", "o", "/">>

\* decodeURIComponent(record.s3.object.key.replace(/\+/g, ' '))
decodedKeyOf(record) ==
    decodeURIComponent(replaceAll(record.s3.object.key, <<"+">>, <<" ">>))

\* shouldProcessRecord that decodes the key as it is, '+' not replaced
shouldProcessRecord_PlusKept(record) ==
    LET key == decodeURIComponent(record.s3.object.key)
    IN IF key.thrown # NoError THEN key
       ELSE Normal(Bool(startsWith(key.value.val, MonitoredPrefix)))

\* a completion: the boolean, or the URIError of the decoding
shouldProcessRecord(record) ==
    LET key == decodedKeyOf(record)
    IN IF key.thrown # NoError THEN key
       ELSE Normal(Bool(startsWith(key.value.val, MonitoredPrefix)))

\* a completion: the ExecutionPayload object
buildPayload(record) ==
    LET decodedKey == decodedKeyOf(record)
    IN IF decodedKey.thrown # NoError THEN decodedKey
       ELSE Normal(Obj(<< <<<<"b", "u", "c", "k", "e", "t">>, Str(record.s3.bucket.name)>>,
                          <<<<"k", "e", "y">>, decodedKey.value>>,
                          <<<<"s", "i", "z", "e">>, record.s3.object.size>>,
                          <<<<"e", "t", "a", "g">>, record.s3.object.eTag>>,
                          <<<<"e", "v", "e", "n", "t", "T", "i", "m", "e">>,
                            Str(record.eventTime)>> >>))

RECURSIVE QuoteJSONString(_)
\* the characters of a JSON string literal, without the enclosing quotes
QuoteJSONString(s) ==
    IF Len(s) = 0 THEN <<>>
    ELSE (IF s[1] \in {"\"", "\\"} THEN <<"\\", s[1]>> ELSE <<s[1]>>)
            \o QuoteJSONString(Tail(s))

\* JSON.stringify of a string or a non-negative integer
SerializeJSONScalar(v) ==
    IF v.kind = "string" THEN <<"\"">> \o QuoteJSONString(v.val) \o <<"\"">>
    ELSE NumberToString(v.val)

RECURSIVE SerializeJSONProperties(_, _, _)
\* the members of entries from n on, each "key":value, undefined ones left out
SerializeJSONProperties(entries, n, first) ==
    IF n > Len(entries) THEN <<>>
    ELSE IF entries[n][2].kind = "undefined"
    THEN SerializeJSONProperties(entries, n + 1, first)
    ELSE (IF first THEN <<>> ELSE <<",">>)
            \o <<"\"">> \o QuoteJSONString(entries[n][1]) \o <<"\"", ":">>
            \o SerializeJSONScalar(entries[n][2])
            \o SerializeJSONProperties(entries, n + 1, FALSE)

\* JSON.stringify of an object whose members are strings, numbers or undefined
JSONstringify(value) ==
    <<"{">> \o SerializeJSONProperties(value.val, 1, TRUE) \o <<"}">>

----------------------------------------------------------------------------
(* The handler module: its top-level statements, then one invocation at a  *)
(* time, each step running up to the next await                            *)

\* 'us-east-1'
RegionName ==
    <<"u", "s", "-", "e", "a", "s", "t", "-", "1">>

\* 'it-info-import', the name of a state machine
StateMachineName ==
    <<"i", "t", "-", "i", "n", "f", "o", "-", "i", "m", "p", "o", "r", "t">>

\* the ARN of a state machine, given in place of its name
StateMachineArnGiven ==
    <<"a", "r", "n", ":", "a", "w", "s", ":", "s", "t", "a", "t", "e", "s", ":", "u", "s", "-", "e", "a", "s", "t", "-", "1", ":", "1", "1", "1", "1", "2", "2", "2", "2", "3", "3", "3", "3", ":", "s", "t", "a", "t", "e", "M", "a", "c", "h", "i", "n", "e", ":", "i", "t", "-", "i", "n", "f", "o", "-", "i", "m", "p", "o", "r", "t">>

\* the account of the caller identity
CallerAccount ==
    <<"1", "1", "1", "1", "2", "2", "2", "2", "3", "3", "3", "3">>

RegionMessage ==
    <<"R", "E", "G", "I", "O", "N", " ", "e", "n", "v", "i", "r", "o", "n", "m", "e", "n", "t", " ", "v", "a", "r", "i", "a", "b", "l", "e", " ", "m", "u", "s", "t", " ", "b", "e", " ", "d", "e", "f", "i", "n", "e", "d">>

StateMachineNameMessage ==
    <<"S", "T", "A", "T", "E", "_", "M", "A", "C", "H", "I", "N", "E", "_", "N", "A", "M", "E", " ", "e", "n", "v", "i", "r", "o", "n", "m", "e", "n", "t", " ", "v", "a", "r", "i", "a", "b", "l", "e", " ", "m", "u", "s", "t", " ", "b", "e", " ", "d", "e", "f", "i", "n", "e", "d">>

AccountMessage ==
    <<"U", "n", "a", "b", "l", "e", " ", "t", "o", " ", "d", "e", "t", "e", "r", "m", "i", "n", "e", " ", "A", "W", "S", " ", "a", "c", "c", "o", "u", "n", "t", " ", "I", "D", " ", "f", "o", "r", " ", "S", "t", "e", "p", " ", "F", "u", "n", "c", "t", "i", "o", "n", "s", " ", "e", "x", "e", "c", "u", "t", "i", "o", "n">>

SkippingMessage ==
    <<"S", "k", "i", "p", "p", "i", "n", "g", " ", "o", "b", "j", "e", "c", "t", " ", "o", "u", "t", "s", "i", "d", "e", " ", "o", "f", " ", "m", "o", "n", "i", "t", "o", "r", "e", "d", " ", "p", "r", "e", "f", "i", "x">>

StartingMessage ==
    <<"S", "t", "a", "r", "t", "i", "n", "g", " ", "S", "t", "e", "p", " ", "F", "u", "n", "c", "t", "i", "o", "n", "s", " ", "e", "x", "e", "c", "u", "t", "i", "o", "n">>

\* errors the service clients reject with
AccessDeniedException == [name |-> "AccessDeniedException", message |-> <<>>]
StateMachineDoesNotExist == [name |-> "StateMachineDoesNotExist", message |-> <<>>]
ExecutionLimitExceeded == [name |-> "ExecutionLimitExceeded", message |-> <<>>]

\* an S3EventRecord
S3Record(key, size, eTag) ==
    [s3 |-> [bucket |-> [name |-> <<"i", "t", "-", "i", "n", "f", "o", "-", "b", "u", "c", "k", "e", "t">>],
             object |-> [key |-> key, size |-> size, eTag |-> eTag]],
     eventTime |-> <<"2", "0", "2", "4", "-", "0", "5", "-", "0", "1", "T", "0", "0", ":", "0", "0", ":", "0", "0", ".", "0", "0", "0", "Z">>]

\* records as S3 writes them (the key URL-encoded, a space as '+'; no size
\* and no eTag when the object was removed), and one with a key that is not
\* a URL encoding
HandlerRecords ==
    {S3Record(<<"I", "T", "+", "i", "n", "f", "o", "/", "a", ".", "c", "s", "v">>, Num(12), Str(<<"e", "1">>)),
     S3Record(<<"I", "T", "%", "2", "0", "i", "n", "f", "o", "/", "b", "%", "2", "B", ".", "c", "s", "v">>, Undefined, Undefined),
     S3Record(<<"I", "T", "%", "2", "B", "i", "n", "f", "o", "/", "a", ".", "c", "s", "v">>, Num(12), Str(<<"e", "1">>)),
     S3Record(<<"I", "T", "+", "i", "n", "f", "o", "/", "1", "0", "0", "%", ".", "c", "s", "v">>, Num(12), Str(<<"e", "1">>))}

\* the S3Event of an invocation; the test event of S3 has no Records
HandlerEvents(n) ==
    {[Records |-> Undefined]}
        \cup {[Records |-> Arr(records)] :
                records \in UNION {[1..k -> HandlerRecords] : k \in 0..n}}

HdlStart ==
    [pc |-> "load",                       \* the statement to run next
     region |-> Undefined,                \* const region
     stateMachineNameEnv |-> Undefined,   \* const stateMachineNameEnv
     cachedStateMachineArn |-> Undefined, \* let cachedStateMachineArn
     invocation |-> 0,                    \* invocations begun so far
     event |-> [Records |-> Undefined],   \* the event of the invocation
     arn |-> Undefined,                   \* const arn of resolveStateMachineArn
     stateMachineArn |-> Undefined,       \* const stateMachineArn of handler
     index |-> 0,                         \* position of the for loop, from 1
     sent |-> <<>>,                       \* StartExecutionCommands sent
     started |-> <<>>,                    \* those the service accepted
     log |-> <<>>,                        \* console.info calls
     result |-> "none",                   \* the promise of the invocation
     thrown |-> NoError,
     resolvedBy |-> "none",               \* how this invocation got the ARN
     cachedAt |-> 0,                      \* the invocation that wrote the cache
     described |-> {},                    \* ARNs DescribeStateMachine accepted
     failedIn |-> "none",                 \* the step that rejected
     failedAt |-> 0,                      \* the record whose StartExecution failed
     previous |-> "none"]                 \* failedIn of the invocation before

InitHandler ==
    /\ hdlInput \in [REGION : {Undefined, Str(RegionName)},
                     AWS_REGION : {Undefined, Str(RegionName)},
                     STATE_MACHINE_NAME : {Undefined, Str(<<>>), Str(StateMachineName),
                                           Str(StateMachineArnGiven)}]
    /\ hdlState = HdlStart
    /\ OthersUnused("hdl")

\* the top-level statements of the module, run once per execution environment
LoadModule ==
    /\ hdlState.pc = "load"
    /\ LET region == NullishCoalesce(hdlInput.REGION, hdlInput.AWS_REGION)
           stateMachineNameEnv == hdlInput.STATE_MACHINE_NAME
       IN hdlState' =
             IF ~Truthy(region)
             THEN [hdlState EXCEPT !.pc = "loadFailed", !.region = region,
                                   !.thrown = Error(RegionMessage)]
             ELSE IF ~Truthy(stateMachineNameEnv)
             THEN [hdlState EXCEPT !.pc = "loadFailed", !.region = region,
                                   !.stateMachineNameEnv = stateMachineNameEnv,
                                   !.thrown = Error(StateMachineNameMessage)]
             ELSE [hdlState EXCEPT !.pc = "idle", !.region = region,
                                   !.stateMachineNameEnv = stateMachineNameEnv]
    /\ UNCHANGED hdlInput
    /\ OthersUnchanged("hdl")

\* the runtime calls handler(event); an execution environment serves one
\* invocation at a time
Invoke ==
    /\ hdlState.pc = "idle"
    /\ hdlState.invocation < MaxInvocations
    /\ \E event \in HandlerEvents(MaxRecords) :
          hdlState' = [hdlState EXCEPT !.pc = "resolve",
                                       !.invocation = @ + 1,
                                       !.event = event,
                                       !.arn = Undefined,
                                       !.stateMachineArn = Undefined,
                                       !.index = 1,
                                       !.sent = <<>>,
                                       !.started = <<>>,
                                       !.log = <<>>,
                                       !.result = "pending",
                                       !.thrown = NoError,
                                       !.resolvedBy = "none",
                                       !.failedIn = "none",
                                       !.failedAt = 0,
                                       !.previous = hdlState.failedIn]
    /\ UNCHANGED hdlInput
    /\ OthersUnchanged("hdl")

\* the promise of the invocation rejects with error
Rejected(state, error, step) ==
    [state EXCEPT !.pc = "idle", !.result = "rejected", !.thrown = error,
                  !.failedIn = step]

\* resolveStateMachineArn(stateMachineNameEnv) up to its first await
ResolveStateMachineArn ==
    /\ hdlState.pc = "resolve"
    /\ LET nameOrArn == hdlState.stateMachineNameEnv
       IN hdlState' =
             IF Truthy(hdlState.cachedStateMachineArn)
             THEN [hdlState EXCEPT !.pc = "loop", !.resolvedBy = "cache",
                                   !.stateMachineArn = hdlState.cachedStateMachineArn]
             ELSE IF startsWith(nameOrArn.val, <<"a", "r", "n", ":">>)
             THEN [hdlState EXCEPT !.pc = "loop", !.resolvedBy = "given",
                                   !.cachedStateMachineArn = nameOrArn,
                                   !.cachedAt = hdlState.invocation,
                                   !.stateMachineArn = nameOrArn]
             ELSE [hdlState EXCEPT !.pc = "getCallerIdentity", !.resolvedBy = "lookup"]
    /\ UNCHANGED hdlInput
    /\ OthersUnchanged("hdl")

\* what stsClient.send(new GetCallerIdentityCommand({})) settles with
CallerIdentities ==
    {Normal([Account |-> Str(CallerAccount)]), Normal([Account |-> Undefined]),
     Abrupt(AccessDeniedException)}

\* the await of GetCallerIdentity settles; the ARN is put together
GetCallerIdentityReturns ==
    /\ hdlState.pc = "getCallerIdentity"
    /\ \E identity \in CallerIdentities :
          hdlState' =
             IF identity.thrown # NoError
             THEN Rejected(hdlState, identity.thrown, "resolution")
             ELSE IF ~Truthy(identity.value.Account)
             THEN Rejected(hdlState, Error(AccountMessage), "resolution")
             ELSE [hdlState EXCEPT
                      !.pc = "describeStateMachine",
                      !.arn = Str(<<"a", "r", "n", ":", "a", "w", "s", ":", "s", "t", "a", "t", "e", "s", ":">>
                                    \o hdlState.region.val \o <<":">>
                                    \o identity.value.Account.val
                                    \o <<":", "s", "t", "a", "t", "e", "M", "a", "c", "h", "i", "n", "e", ":">>
                                    \o hdlState.stateMachineNameEnv.val)]
    /\ UNCHANGED hdlInput
    /\ OthersUnchanged("hdl")

\* the cache assigned whether or not DescribeStateMachine accepted the ARN
DescribeStateMachineReturns_CachesAnyway ==
    /\ hdlState.pc = "describeStateMachine"
    /\ \E described \in {Normal(Undefined), Abrupt(StateMachineDoesNotExist)} :
          hdlState' =
             IF described.thrown # NoError
             THEN Rejected([hdlState EXCEPT !.cachedStateMachineArn = hdlState.arn,
                                            !.cachedAt = hdlState.invocation],
                           described.thrown, "resolution")
             ELSE [hdlState EXCEPT !.pc = "loop",
                                   !.cachedStateMachineArn = hdlState.arn,
                                   !.cachedAt = hdlState.invocation,
                                   !.described = @ \cup {hdlState.arn},
                                   !.stateMachineArn = hdlState.arn]
    /\ UNCHANGED hdlInput
    /\ OthersUnchanged("hdl")

\* the await of DescribeStateMachine settles; the ARN is cached and returned
DescribeStateMachineReturns ==
    /\ hdlState.pc = "describeStateMachine"
    /\ \E described \in {Normal(Undefined), Abrupt(StateMachineDoesNotExist)} :
          hdlState' =
             IF described.thrown # NoError
             THEN Rejected(hdlState, described.thrown, "resolution")
             ELSE [hdlState EXCEPT !.pc = "loop",
                                   !.cachedStateMachineArn = hdlState.arn,
                                   !.cachedAt = hdlState.invocation,
                                   !.described = @ \cup {hdlState.arn},
                                   !.stateMachineArn = hdlState.arn]
    /\ UNCHANGED hdlInput
    /\ OthersUnchanged("hdl")

\* event.Records ?? []
RecordsOf(event) == NullishCoalesce(event.Records, Arr(<<>>)).val

\* one pass of the loop body up to its await: the record is skipped, or its
\* StartExecutionCommand is sent
ProcessRecord ==
    /\ hdlState.pc = "loop"
    /\ hdlState.index <= Len(RecordsOf(hdlState.event))
    /\ LET record == RecordsOf(hdlState.event)[hdlState.index]
           should == shouldProcessRecord(record)
           payload == buildPayload(record)
       IN hdlState' =
             IF should.thrown # NoError
             THEN Rejected(hdlState, should.thrown, "record")
             ELSE IF ~should.value.val
             THEN [hdlState EXCEPT
                      !.index = @ + 1,
                      !.log = Append(@, [message |-> SkippingMessage,
                                         bucket |-> record.s3.bucket.name,
                                         key |-> record.s3.object.key])]
             ELSE [hdlState EXCEPT
                      !.pc = "startExecution",
                      !.log = Append(@, [message |-> StartingMessage,
                                         stateMachineArn |-> hdlState.stateMachineArn,
                                         payload |-> payload.value]),
                      !.sent = Append(@, [stateMachineArn |-> hdlState.stateMachineArn,
                                          input |-> JSONstringify(payload.value)])]
    /\ UNCHANGED hdlInput
    /\ OthersUnchanged("hdl")

\* the loop going on to the next record after a StartExecution that failed
StartExecutionReturns_GoesOn ==
    /\ hdlState.pc = "startExecution"
    /\ \E execution \in {Normal(Undefined), Abrupt(ExecutionLimitExceeded)} :
          hdlState' =
             IF execution.thrown # NoError
             THEN [hdlState EXCEPT !.pc = "loop", !.index = @ + 1,
                                   !.failedAt = hdlState.index]
             ELSE [hdlState EXCEPT !.pc = "loop", !.index = @ + 1,
                                   !.started = Append(@, hdlState.sent[Len(hdlState.sent)])]
    /\ UNCHANGED hdlInput
    /\ OthersUnchanged("hdl")

\* the await of StartExecution settles
StartExecutionReturns ==
    /\ hdlState.pc = "startExecution"
    /\ \E execution \in {Normal(Undefined), Abrupt(ExecutionLimitExceeded)} :
          hdlState' =
             IF execution.thrown # NoError
             THEN Rejected([hdlState EXCEPT !.failedAt = hdlState.index],
                           execution.thrown, "startExecution")
             ELSE [hdlState EXCEPT !.pc = "loop", !.index = @ + 1,
                                   !.started = Append(@, hdlState.sent[Len(hdlState.sent)])]
    /\ UNCHANGED hdlInput
    /\ OthersUnchanged("hdl")

\* the loop is over: the promise of the invocation resolves
Return ==
    /\ hdlState.pc = "loop"
    /\ hdlState.index > Len(RecordsOf(hdlState.event))
    /\ hdlState' = [hdlState EXCEPT !.pc = "idle", !.result = "resolved"]
    /\ UNCHANGED hdlInput
    /\ OthersUnchanged("hdl")

NextHandler ==
    \/ LoadModule
    \/ Invoke
    \/ ResolveStateMachineArn
    \/ GetCallerIdentityReturns
    \/ DescribeStateMachineReturns
    \/ ProcessRecord
    \/ StartExecutionReturns
    \/ Return

SpecHandler == InitHandler /\ [][NextHandler]_vars

----------------------------------------------------------------------------
(* Properties of the handler, checked under SpecHandler *)

\* C22: the memoized state machine ARN is scoped to one pass and is never
\* process-wide state: the ARN an invocation works with was cached by that
\* invocation, never left behind by an earlier call in the same process.
C22_CacheScopedToOnePass ==
    hdlState.stateMachineArn # Undefined => hdlState.cachedAt = hdlState.invocation

\* the record's decoded key ('+' turned into a space, then URI-decoded)
\* starts with 'IT info/'
Monitored(record) ==
    LET key == decodeURIComponent(replaceAll(record.s3.object.key, <<"+">>, <<" ">>))
    IN key.thrown = NoError /\ startsWith(key.value.val, MonitoredPrefix)

RECURSIVE ExpectedExecutions(_, _, _)
\* one StartExecution for each monitored record among the first n, in the
\* order of the records, each with the payload of its record
ExpectedExecutions(records, n, stateMachineArn) ==
    IF n = 0 THEN <<>>
    ELSE IF Monitored(records[n])
    THEN Append(ExpectedExecutions(records, n - 1, stateMachineArn),
                [stateMachineArn |-> stateMachineArn,
                 input |-> JSONstringify(buildPayload(records[n]).value)])
    ELSE ExpectedExecutions(records, n - 1, stateMachineArn)

IsPrefix(s, t) == Len(s) <= Len(t) /\ SubSeq(t, 1, Len(s)) = s

\* C23: for every event the handler sends StartExecution exactly once for
\* each record whose decoded key starts with 'IT info/', in the order of the
\* records and with that record's payload, and none for any other record:
\* while the loop runs the commands sent are those of the monitored records
\* passed so far, and when the handler returns, those of all of them.
C23_OneExecutionPerMonitoredRecord ==
    LET records == RecordsOf(hdlState.event)
        expected(n) == ExpectedExecutions(records, n, hdlState.stateMachineArn)
    IN /\ hdlState.pc \in {"resolve", "getCallerIdentity", "describeStateMachine"}
            => hdlState.sent = <<>> /\ hdlState.started = <<>>
       /\ hdlState.pc = "loop"
            => hdlState.sent = expected(hdlState.index - 1) /\ hdlState.started = hdlState.sent
       /\ hdlState.pc = "startExecution"
            => /\ Monitored(records[hdlState.index])
               /\ hdlState.sent = expected(hdlState.index)
               /\ hdlState.started = SubSeq(hdlState.sent, 1, Len(hdlState.sent) - 1)
       /\ hdlState.result = "resolved"
            => hdlState.sent = expected(Len(records)) /\ hdlState.started = hdlState.sent
       /\ hdlState.result = "rejected"
            => /\ IsPrefix(hdlState.sent, expected(Len(records)))
               /\ IsPrefix(hdlState.started, hdlState.sent)

\* an event of two monitored records was handled: two executions in the
\* order of the records, each with the decoded key of its record
C23_Witness ==
    /\ hdlState.result = "resolved"
    /\ Len(RecordsOf(hdlState.event)) = 2
    /\ hdlState.started =
          << [stateMachineArn |-> Str(StateMachineArnGiven),
              input |-> <<"{", "\"", "b", "u", "c", "k", "e", "t", "\"", ":", "\"", "i", "t", "-", "i", "n", "f", "o", "-", "b", "u", "c", "k", "e", "t", "\"", ",", "\"", "k", "e", "y", "\"", ":", "\"", "I", "T", " ", "i", "n", "f", "o", "/", "a", ".", "c", "s", "v", "\"", ",", "\"", "s", "i", "z", "e", "\"", ":", "1", "2", ",", "\"", "e", "t", "a", "g", "\"", ":", "\"", "e", "1", "\"", ",", "\"", "e", "v", "e", "n", "t", "T", "i", "m", "e", "\"", ":", "\"", "2", "0", "2", "4", "-", "0", "5", "-", "0", "1", "T", "0", "0", ":", "0", "0", ":", "0", "0", ".", "0", "0", "0", "Z", "\"", "}">>],
             [stateMachineArn |-> Str(StateMachineArnGiven),
              input |-> <<"{", "\"", "b", "u", "c", "k", "e", "t", "\"", ":", "\"", "i", "t", "-", "i", "n", "f", "o", "-", "b", "u", "c", "k", "e", "t", "\"", ",", "\"", "k", "e", "y", "\"", ":", "\"", "I", "T", " ", "i", "n", "f", "o", "/", "b", "+", ".", "c", "s", "v", "\"", ",", "\"", "e", "v", "e", "n", "t", "T", "i", "m", "e", "\"", ":", "\"", "2", "0", "2", "4", "-", "0", "5", "-", "0", "1", "T", "0", "0", ":", "0", "0", ":", "0", "0", ".", "0", "0", "0", "Z", "\"", "}">>] >>

\* C24: if resolving the state machine ARN fails, the handler starts no
\* execution for any record of the event and the cached ARN stays unset, so
\* the next invocation repeats the resolution; the cache is written only
\* after an ARN was given directly or DescribeStateMachine succeeded.
C24_FailedResolutionStartsNothing ==
    /\ hdlState.failedIn = "resolution"
          => /\ hdlState.result = "rejected"
             /\ hdlState.sent = <<>>
             /\ hdlState.started = <<>>
             /\ hdlState.cachedStateMachineArn = Undefined
    /\ (hdlState.previous = "resolution" /\ hdlState.resolvedBy # "none")
          => hdlState.resolvedBy = "lookup"
    /\ hdlState.cachedStateMachineArn # Undefined
          => \/ /\ hdlState.cachedStateMachineArn = hdlState.stateMachineNameEnv
                /\ startsWith(hdlState.stateMachineNameEnv.val, <<"a", "r", "n", ":">>)
             \/ hdlState.cachedStateMachineArn \in hdlState.described

\* after a failed resolution the next invocation looked the ARN up again,
\* and DescribeStateMachine failed once more, with monitored records waiting
C24_Witness ==
    /\ hdlState.previous = "resolution"
    /\ hdlState.failedIn = "resolution"
    /\ hdlState.thrown = StateMachineDoesNotExist
    /\ hdlState.arn = Str(StateMachineArnGiven)
    /\ \E i \in 1..Len(RecordsOf(hdlState.event)) : Monitored(RecordsOf(hdlState.event)[i])

\* C25: if StartExecution fails for the k-th monitored record of an event,
\* the handler fails at that point: the executions of the monitored records
\* before it have been started and stay started, and no execution is
\* started, and no command sent, for any record after it.
C25_FailsAtFailedStart ==
    hdlState.failedAt # 0
        => LET records == RecordsOf(hdlState.event)
           IN /\ hdlState.pc = "idle"
              /\ hdlState.result = "rejected"
              /\ hdlState.thrown = ExecutionLimitExceeded
              /\ hdlState.index = hdlState.failedAt
              /\ Monitored(records[hdlState.failedAt])
              /\ hdlState.sent =
                    ExpectedExecutions(records, hdlState.failedAt, hdlState.stateMachineArn)
              /\ hdlState.started =
                    ExpectedExecutions(records, hdlState.failedAt - 1, hdlState.stateMachineArn)

\* the second of two monitored records failed: one execution started
C25_Witness ==
    /\ hdlState.failedAt = 2
    /\ Len(RecordsOf(hdlState.event)) = 2
    /\ \A i \in 1..2 : Monitored(RecordsOf(hdlState.event)[i])
    /\ Len(hdlState.started) = 1
    /\ Len(hdlState.sent) = 2
    /\ hdlState.result = "rejected"

====
